---- MODULE Spec2Model ----
(***************************************************************************)
(* mlflow-faculty: the filter-string parser of mlflow_faculty/filter.py    *)
(* and the filter builders around it, the operations of the tracking store *)
(* FacultyRestStore (tracking.py, trackingstore.py) and the run context    *)
(* FacultyRunContext (context.py).                                         *)
(*                                                                         *)
(* A Python str is a sequence of one-character strings, so that split,     *)
(* indexing, slicing, upper and lower are computed character by character. *)
(* The tokenizer (sqlparse) is an external library: its tokens are inputs, *)
(* records [cls, ttype, value, tokens] with the fields the parser reads.   *)
(***************************************************************************)
EXTENDS Integers, Sequences, FiniteSets, TLC

VARIABLES
    call,       \* the function being called and its arguments
    pc,         \* "called" until the function has returned or raised
    result,     \* what the call returned or raised
    earlier,    \* the calls made before this one: their string and outcome
    requests,   \* the requests made of the remote clients, with their responses
    local,      \* the local variables of a store operation in progress
    _account_cache  \* FacultyRunContext._account_cache

vars == <<call, pc, result, earlier, requests, local, _account_cache>>

(***************************************************************************)
(* Python str operations                                                   *)
(***************************************************************************)
\* the backquote character, which a TLA+ string cannot hold
BACKTICK == "backtick"

LowerAlphabet == <<"a","b","c","d","e","f","g","h","i","j","k","l","m","n","o","p","q","r","s","t","u","v","w","x","y","z">>
UpperAlphabet == <<"A","B","C","D","E","F","G","H","I","J","K","L","M","N","O","P","Q","R","S","T","U","V","W","X","Y","Z">>
Digits == <<"0","1","2","3","4","5","6","7","8","9">>
HexDigits == <<"0","1","2","3","4","5","6","7","8","9","a","b","c","d","e","f">>

\* position of character c in alphabet a, 0 when absent
PosIn(a, c) == IF \E i \in 1..Len(a) : a[i] = c
               THEN CHOOSE i \in 1..Len(a) : a[i] = c
               ELSE 0

\* str.upper()
upper(s) == [i \in 1..Len(s) |->
               IF PosIn(LowerAlphabet, s[i]) > 0
               THEN UpperAlphabet[PosIn(LowerAlphabet, s[i])] ELSE s[i]]

\* fault: the letter case is kept
lower_CaseKept(s) == s

\* str.lower()
lower(s) == [i \in 1..Len(s) |->
               IF PosIn(UpperAlphabet, s[i]) > 0
               THEN LowerAlphabet[PosIn(UpperAlphabet, s[i])] ELSE s[i]]

\* fault: the text is split at its last dot (rsplit)
split_dot_AtLastDot(s) ==
    IF \E i \in 1..Len(s) : s[i] = "."
    THEN LET i == CHOOSE k \in 1..Len(s) :
                      s[k] = "." /\ \A j \in (k + 1)..Len(s) : s[j] # "."
         IN  <<SubSeq(s, 1, i - 1), SubSeq(s, i + 1, Len(s))>>
    ELSE <<s>>

\* value.split(".", 1): one part when there is no dot, else the text before
\* the first dot and the text after it
split_dot(s) ==
    IF \E i \in 1..Len(s) : s[i] = "."
    THEN LET i == CHOOSE k \in 1..Len(s) :
                      s[k] = "." /\ \A j \in 1..(k - 1) : s[j] # "."
         IN  <<SubSeq(s, 1, i - 1), SubSeq(s, i + 1, Len(s))>>
    ELSE <<s>>

\* value.strip() == ""
IsBlank(s) == \A i \in 1..Len(s) : s[i] \in {" ", "\t", "\n"}

\* int(value): an optional sign and decimal digits
IsIntText(s) ==
    LET d == IF Len(s) > 0 /\ s[1] \in {"-", "+"} THEN Tail(s) ELSE s
    IN  Len(d) > 0 /\ \A i \in 1..Len(d) : PosIn(Digits, d[i]) > 0

RECURSIVE DigitsValue(_)
DigitsValue(d) ==
    IF Len(d) = 0 THEN 0
    ELSE 10 * DigitsValue(SubSeq(d, 1, Len(d) - 1)) + (PosIn(Digits, d[Len(d)]) - 1)

IntOf(s) ==
    IF Len(s) > 0 /\ s[1] = "-" THEN 0 - DigitsValue(Tail(s))
    ELSE IF Len(s) > 0 /\ s[1] = "+" THEN DigitsValue(Tail(s))
    ELSE DigitsValue(s)

\* float(value) for decimal literals digits[.digits]: the number is
\* n / 10^e with no trailing zero in the fraction.  Any other text (a
\* hexadecimal literal, a word) raises ValueError.
IsFloatText(s) ==
    LET parts == split_dot(s)
        allDigits(d) == \A i \in 1..Len(d) : PosIn(Digits, d[i]) > 0
    IN  /\ Len(s) > 0
        /\ allDigits(parts[1])
        /\ Len(parts) = 2 => allDigits(parts[2]) /\ Len(parts[1]) + Len(parts[2]) > 0

RECURSIVE StripTrailingZeros(_)
StripTrailingZeros(d) ==
    IF Len(d) > 0 /\ d[Len(d)] = "0" THEN StripTrailingZeros(SubSeq(d, 1, Len(d) - 1))
    ELSE d

FloatOf(s) ==
    LET parts == split_dot(s)
        frac  == IF Len(parts) = 2 THEN StripTrailingZeros(parts[2]) ELSE <<>>
    IN  [n |-> DigitsValue(parts[1] \o frac), e |-> Len(frac)]

\* uuid.UUID(hex): braces stripped and hyphens removed, then exactly 32
\* hexadecimal digits of either case; the UUID is its 128-bit number, kept
\* here as the 32 lower-case digits
RECURSIVE RemoveHyphens(_)
RemoveHyphens(s) ==
    IF Len(s) = 0 THEN <<>>
    ELSE IF Head(s) = "-" THEN RemoveHyphens(Tail(s))
    ELSE <<Head(s)>> \o RemoveHyphens(Tail(s))

RECURSIVE StripBraces(_)
StripBraces(s) ==
    IF Len(s) > 0 /\ s[1] \in {"{", "}"} THEN StripBraces(Tail(s))
    ELSE IF Len(s) > 0 /\ s[Len(s)] \in {"{", "}"} THEN StripBraces(SubSeq(s, 1, Len(s) - 1))
    ELSE s

\* fault: the letter case of the digits is kept
UuidHex_CaseKept(s) == RemoveHyphens(StripBraces(s))

UuidHex(s) == lower(RemoveHyphens(StripBraces(s)))

IsUuidText(s) ==
    /\ Len(UuidHex(s)) = 32
    /\ \A i \in 1..32 : PosIn(HexDigits, UuidHex(s)[i]) > 0

(***************************************************************************)
(* sqlparse tokens, as the parser reads them                               *)
(***************************************************************************)
\* token types are paths in sqlparse.tokens; (t in T) is the prefix test
Keyword         == <<"Keyword">>
Comparison      == <<"Operator", "Comparison">>
Number          == <<"Literal", "Number">>
NumberInteger   == <<"Literal", "Number", "Integer">>
NumberFloat     == <<"Literal", "Number", "Float">>
NumberHex       == <<"Literal", "Number", "Hexadecimal">>
StringSingle    == <<"Literal", "String", "Single">>
Whitespace      == <<"Text", "Whitespace">>
Punctuation     == <<"Punctuation">>
NoType          == <<"None">>

InType(t, parent) == Len(t) >= Len(parent) /\ SubSeq(t, 1, Len(parent)) = parent

\* a plain token
Tok(ttype, value) == [cls |-> "Token", ttype |-> ttype, value |-> value, tokens |-> <<>>]

\* sql.Identifier: a group read through its text only
SqlIdentifier(value) == [cls |-> "Identifier", ttype |-> NoType, value |-> value, tokens |-> <<>>]

\* the text of a token list: the concatenation of the tokens' texts
RECURSIVE Flat(_)
Flat(tokens) == IF Len(tokens) = 0 THEN <<>> ELSE Head(tokens).value \o Flat(Tail(tokens))

\* sql.Statement, sql.Parenthesis, sql.Comparison: groups of child tokens
Group(cls, tokens) == [cls |-> cls, ttype |-> NoType, value |-> Flat(tokens), tokens |-> tokens]

is_whitespace(token) == InType(token.ttype, Whitespace)
is_keyword(token) == InType(token.ttype, Keyword)
normalized(token) == IF is_keyword(token) THEN upper(token.value) ELSE token.value

\* Token.match(ttype, values): the type is exactly ttype and the text (upper-
\* cased for a keyword) is one of values
match(token, ttype, values) ==
    /\ token.ttype = ttype
    /\ IF is_keyword(token) THEN normalized(token) \in values ELSE token.value \in values

\* re.search("NOT +NULL", text)
SearchNotNull(s) ==
    \E i \in 1..Len(s), j \in 1..Len(s) :
        /\ j >= i + 4
        /\ j + 3 <= Len(s)
        /\ SubSeq(s, i, i + 2) = <<"N","O","T">>
        /\ \A k \in (i + 3)..(j - 1) : s[k] = " "
        /\ SubSeq(s, j, j + 3) = <<"N","U","L","L">>

\* Token.match(Keyword, ["NOT +NULL"], regex=True)
match_not_null(token) == token.ttype = Keyword /\ SearchNotNull(normalized(token))

(***************************************************************************)
(* filter.py: constants                                                    *)
(***************************************************************************)
ATTRIBUTE_IDENTIFIERS == {<<"a","t","t","r","i","b","u","t","e">>, <<"a","t","t","r","i","b","u","t","e","s">>, <<"a","t","t","r">>, <<"r","u","n">>}
RUN_ID_IDENTIFIERS == {<<"i","d">>, <<"r","u","n","_","i","d">>}
PARAM_IDENTIFIERS == {<<"p","a","r","a","m">>, <<"p","a","r","a","m","s">>, <<"p","a","r","a","m","e","t","e","r">>, <<"p","a","r","a","m","e","t","e","r","s">>}
METRIC_IDENTIFIERS == {<<"m","e","t","r","i","c">>, <<"m","e","t","r","i","c","s">>}
TAG_IDENTIFIERS == {<<"t","a","g">>, <<"t","a","g","s">>}

COMPARISON_OPERATOR_MAPPING ==
    [v \in {<<"=">>, <<"!","=">>, <<">">>, <<">","=">>, <<"<">>, <<"<","=">>} |->
        CASE v = <<"=">>  -> "EQUAL_TO"
          [] v = <<"!","=">> -> "NOT_EQUAL_TO"
          [] v = <<">">>  -> "GREATER_THAN"
          [] v = <<">","=">> -> "GREATER_THAN_OR_EQUAL_TO"
          [] v = <<"<">>  -> "LESS_THAN"
          [] v = <<"<","=">> -> "LESS_THAN_OR_EQUAL_TO"]

DISCRETE_KEY_TYPES == {"RUN_ID", "STATUS", "TAG"}
DISCRETE_OPERATORS == {"DEFINED", "EQUAL_TO", "NOT_EQUAL_TO"}

\* faculty.clients.experiment.ExperimentRunStatus values
ExperimentRunStatus == {<<"r","u","n","n","i","n","g">>, <<"f","i","n","i","s","h","e","d">>, <<"f","a","i","l","e","d">>, <<"s","c","h","e","d","u","l","e","d">>, <<"k","i","l","l","e","d">>}

(***************************************************************************)
(* values, filters, outcomes                                               *)
(***************************************************************************)
NoValue == [type |-> "none", b |-> FALSE, n |-> 0, e |-> 0, s |-> <<>>]
BoolValue(b) == [NoValue EXCEPT !.type = "bool", !.b = b]
IntValue(n) == [NoValue EXCEPT !.type = "int", !.n = n]
FloatValue(f) == [NoValue EXCEPT !.type = "float", !.n = f.n, !.e = f.e]
StrValue(s) == [NoValue EXCEPT !.type = "str", !.s = s]
UuidValue(s) == [NoValue EXCEPT !.type = "UUID", !.s = s]
StatusValue(s) == [NoValue EXCEPT !.type = "ExperimentRunStatus", !.s = s]

\* a leaf filter of faculty.clients.experiment; key is unused by the
\* filters that have none
LeafFilter(node, key, operator, value) ==
    [node |-> node, key |-> key, operator |-> operator, value |-> value,
     conditions |-> <<>>]

CompoundFilter(operator, conditions) ==
    [node |-> "CompoundFilter", key |-> <<>>, operator |-> operator,
     value |-> NoValue, conditions |-> conditions]

\* Python None where a filter is expected
NoneFilter == LeafFilter("None", <<>>, "", NoValue)

\* what a function did: returned a value or raised
NoError == [kind |-> "", expected |-> "", text |-> <<>>]
Error(kind, expected, text) == [kind |-> kind, expected |-> expected, text |-> text]

\* the class of the exception raised: every error of the parser is a
\* ValueError; MatchesNothing and the unexpected-key-type Exception are not
ExceptionClass(error) ==
    IF error.kind \in {"MatchesNothing", "Exception"} THEN error.kind
    ELSE IF error.kind = "" THEN ""
    ELSE "ValueError"

Returned(filter) == [status |-> "returned", filter |-> filter, error |-> NoError]
Raised(error) == [status |-> "raised", filter |-> NoneFilter, error |-> error]
NoResult == [status |-> "none", filter |-> NoneFilter, error |-> NoError]

INVALID_IDENTIFIER(text) == Error("InvalidIdentifier", "", text)
INVALID_OPERATOR(text) == Error("InvalidOperator", "", text)
INVALID_VALUE(expected, text) == Error("InvalidValue", expected, text)

(***************************************************************************)
(* filter.py: one leaf filter from its three tokens                        *)
(***************************************************************************)
\* fault: only the opening quote is looked at
_is_quoted_OpeningOnly(value, quote) == Len(value) >= 2 /\ value[1] = quote

\* value[0] == quote and value[-1] == quote, for a value of length >= 2
_is_quoted(value, quote) ==
    Len(value) >= 2 /\ value[1] = quote /\ value[Len(value)] = quote

\* fault: require_quotes is ignored, an unquoted value is returned as it is
_strip_quotes_NeverRequired(value, quotes, require_quotes) ==
    IF \E i \in 1..Len(quotes) : _is_quoted(value, quotes[i])
    THEN [ok |-> TRUE, s |-> SubSeq(value, 2, Len(value) - 1), error |-> NoError]
    ELSE [ok |-> TRUE, s |-> value, error |-> NoError]

\* quotes is the list of quote characters tried in order; the first one that
\* wraps the value is removed
_strip_quotes(value, quotes, require_quotes) ==
    IF \E i \in 1..Len(quotes) : _is_quoted(value, quotes[i])
    THEN [ok |-> TRUE, s |-> SubSeq(value, 2, Len(value) - 1), error |-> NoError]
    ELSE IF require_quotes
    THEN [ok |-> FALSE, s |-> <<>>,
          error |-> INVALID_VALUE("a string quoted with one of", value)]
    ELSE [ok |-> TRUE, s |-> value, error |-> NoError]

_parse_identifier(token) ==
    LET bad == [ok |-> FALSE, key_type |-> "", key |-> <<>>,
                error |-> INVALID_IDENTIFIER(token.value)]
        good(key_type, key) == [ok |-> TRUE, key_type |-> key_type, key |-> key,
                                error |-> NoError]
    IN  IF token.cls # "Identifier" THEN bad
        ELSE IF Len(split_dot(token.value)) # 2 THEN bad
        ELSE LET key_type_string == split_dot(token.value)[1]
                 key == _strip_quotes(split_dot(token.value)[2], <<"\"", BACKTICK>>, FALSE).s
             IN  IF key_type_string \in ATTRIBUTE_IDENTIFIERS
                 THEN IF key \in RUN_ID_IDENTIFIERS THEN good("RUN_ID", <<>>)
                      ELSE IF key = <<"s","t","a","t","u","s">> THEN good("STATUS", <<>>)
                      ELSE bad
                 ELSE IF key_type_string \in PARAM_IDENTIFIERS THEN good("PARAM", key)
                 ELSE IF key_type_string \in METRIC_IDENTIFIERS THEN good("METRIC", key)
                 ELSE IF key_type_string \in TAG_IDENTIFIERS THEN good("TAG", key)
                 ELSE bad

\* fault: a comparison token outside the table is read as =
_parse_operator_UnknownAsEqual(token) ==
    IF match(token, Keyword, {<<"I","S">>})
    THEN [ok |-> TRUE, operator |-> "DEFINED", error |-> NoError]
    ELSE IF token.ttype = Comparison
    THEN [ok |-> TRUE,
          operator |-> IF token.value \in DOMAIN COMPARISON_OPERATOR_MAPPING
                       THEN COMPARISON_OPERATOR_MAPPING[token.value] ELSE "EQUAL_TO",
          error |-> NoError]
    ELSE [ok |-> FALSE, operator |-> "", error |-> INVALID_OPERATOR(token.value)]

_parse_operator(token) ==
    IF match(token, Keyword, {<<"I","S">>})
    THEN [ok |-> TRUE, operator |-> "DEFINED", error |-> NoError]
    ELSE IF token.ttype = Comparison /\ token.value \in DOMAIN COMPARISON_OPERATOR_MAPPING
    THEN [ok |-> TRUE, operator |-> COMPARISON_OPERATOR_MAPPING[token.value],
          error |-> NoError]
    ELSE [ok |-> FALSE, operator |-> "", error |-> INVALID_OPERATOR(token.value)]

ValueOk(value) == [ok |-> TRUE, value |-> value, error |-> NoError]
ValueError(error) == [ok |-> FALSE, value |-> NoValue, error |-> error]

\* fault: the two booleans are swapped
_extract_defined_Swapped(token) ==
    IF match(token, Keyword, {<<"N","U","L","L">>}) THEN ValueOk(BoolValue(TRUE))
    ELSE IF match_not_null(token) THEN ValueOk(BoolValue(FALSE))
    ELSE ValueError(INVALID_VALUE("NULL or NOT NULL", token.value))

_extract_defined(token) ==
    IF match(token, Keyword, {<<"N","U","L","L">>}) THEN ValueOk(BoolValue(FALSE))
    ELSE IF match_not_null(token) THEN ValueOk(BoolValue(TRUE))
    ELSE ValueError(INVALID_VALUE("NULL or NOT NULL", token.value))

\* fault: the sub-type of a number token is not looked at, float() is used
_extract_number_SubTypeIgnored(token) ==
    IF InType(token.ttype, Number)
    THEN IF IsFloatText(token.value)
         THEN ValueOk(FloatValue(FloatOf(token.value)))
         ELSE ValueError(Error("ValueError", "could not convert string to float",
                               token.value))
    ELSE ValueError(INVALID_VALUE("a number", token.value))

\* int(token.value) for an integer token, float(token.value) for any other
\* number token; float raises a plain ValueError on text it cannot convert
_extract_number(token) ==
    IF InType(token.ttype, Number)
    THEN IF token.ttype = NumberInteger
         THEN ValueOk(IntValue(IntOf(token.value)))
         ELSE IF IsFloatText(token.value)
              THEN ValueOk(FloatValue(FloatOf(token.value)))
              ELSE ValueError(Error("ValueError", "could not convert string to float",
                                    token.value))
    ELSE ValueError(INVALID_VALUE("a number", token.value))

\* fault: values are stripped with the quote characters of identifiers too
_extract_string_WithBackticks(token) ==
    IF token.ttype = StringSingle \/ token.cls = "Identifier"
    THEN LET stripped == _strip_quotes(token.value, <<"\"", "'", BACKTICK>>, TRUE)
         IN  IF stripped.ok THEN ValueOk(StrValue(stripped.s))
             ELSE ValueError(stripped.error)
    ELSE ValueError(INVALID_VALUE("a quoted string (e.g. 'my-value')", token.value))

_extract_string(token) ==
    IF token.ttype = StringSingle \/ token.cls = "Identifier"
    THEN LET stripped == _strip_quotes(token.value, <<"\"", "'">>, TRUE)
         IN  IF stripped.ok THEN ValueOk(StrValue(stripped.s))
             ELSE ValueError(stripped.error)
    ELSE ValueError(INVALID_VALUE("a quoted string (e.g. 'my-value')", token.value))

\* number takes priority; a ValueError of either attempt is swallowed
_extract_number_or_string(token) ==
    IF _extract_number(token).ok THEN _extract_number(token)
    ELSE IF _extract_string(token).ok THEN _extract_string(token)
    ELSE ValueError(INVALID_VALUE("a number or quoted string", token.value))

\* fault: the value of a metric is extracted like the value of a param
_parse_value_MetricAsParam(key_type, operator, value_token) ==
    IF operator = "DEFINED" THEN _extract_defined(value_token)
    ELSE IF key_type = "RUN_ID"
    THEN LET value_string == _extract_string(value_token)
         IN  IF ~value_string.ok THEN value_string
             ELSE IF IsUuidText(value_string.value.s)
             THEN ValueOk(UuidValue(UuidHex(value_string.value.s)))
             ELSE ValueError(INVALID_VALUE("a UUID", value_string.value.s))
    ELSE IF key_type = "STATUS"
    THEN LET value_string == _extract_string(value_token)
         IN  IF ~value_string.ok THEN value_string
             ELSE IF lower(value_string.value.s) \in ExperimentRunStatus
             THEN ValueOk(StatusValue(lower(value_string.value.s)))
             ELSE ValueError(INVALID_VALUE("a run status (one of)", value_string.value.s))
    ELSE IF key_type = "PARAM" THEN _extract_number_or_string(value_token)
    ELSE IF key_type = "METRIC" THEN _extract_number_or_string(value_token)
    ELSE IF key_type = "TAG" THEN _extract_string(value_token)
    ELSE ValueError(Error("Exception", "Unexpected key_type", <<>>))

_parse_value(key_type, operator, value_token) ==
    IF operator = "DEFINED" THEN _extract_defined(value_token)
    ELSE IF key_type = "RUN_ID"
    THEN LET value_string == _extract_string(value_token)
         IN  IF ~value_string.ok THEN value_string
             ELSE IF IsUuidText(value_string.value.s)
             THEN ValueOk(UuidValue(UuidHex(value_string.value.s)))
             ELSE ValueError(INVALID_VALUE("a UUID", value_string.value.s))
    ELSE IF key_type = "STATUS"
    THEN LET value_string == _extract_string(value_token)
         IN  IF ~value_string.ok THEN value_string
             ELSE IF lower(value_string.value.s) \in ExperimentRunStatus
             THEN ValueOk(StatusValue(lower(value_string.value.s)))
             ELSE ValueError(INVALID_VALUE("a run status (one of)", value_string.value.s))
    ELSE IF key_type = "PARAM" THEN _extract_number_or_string(value_token)
    ELSE IF key_type = "METRIC" THEN _extract_number(value_token)
    ELSE IF key_type = "TAG" THEN _extract_string(value_token)
    ELSE ValueError(Error("Exception", "Unexpected key_type", <<>>))

\* fault: the check of param filters with string values is missing
_validate_operator_KeyTypeOnly(key_type, operator, value) ==
    IF key_type \in DISCRETE_KEY_TYPES /\ operator \notin DISCRETE_OPERATORS
    THEN Error("UnsupportedOperator", key_type, <<>>)
    ELSE NoError

\* NoError when the operator may be used with the key type and value
_validate_operator(key_type, operator, value) ==
    IF key_type \in DISCRETE_KEY_TYPES
    THEN IF operator \notin DISCRETE_OPERATORS
         THEN Error("UnsupportedOperator", key_type, <<>>)
         ELSE NoError
    ELSE IF key_type = "PARAM" /\ value.type = "str"
    THEN IF operator \notin DISCRETE_OPERATORS
         THEN Error("UnsupportedOperator", "PARAM with string value", <<>>)
         ELSE NoError
    ELSE NoError

\* fault: the operator is not checked against the key type and the value
_single_filter_from_tokens_NotValidated(identifier_token, operator_token, value_token) ==
    LET identifier == _parse_identifier(identifier_token)
        operator == _parse_operator(operator_token)
        value == _parse_value(identifier.key_type, operator.operator, value_token)
        key_type == identifier.key_type
    IN  IF ~identifier.ok THEN Raised(identifier.error)
        ELSE IF ~operator.ok THEN Raised(operator.error)
        ELSE IF ~value.ok THEN Raised(value.error)
        ELSE IF key_type = "RUN_ID"
        THEN Returned(LeafFilter("RunIdFilter", <<>>, operator.operator, value.value))
        ELSE IF key_type = "STATUS"
        THEN Returned(LeafFilter("RunStatusFilter", <<>>, operator.operator, value.value))
        ELSE IF key_type = "PARAM"
        THEN Returned(LeafFilter("ParamFilter", identifier.key, operator.operator, value.value))
        ELSE IF key_type = "METRIC"
        THEN Returned(LeafFilter("MetricFilter", identifier.key, operator.operator, value.value))
        ELSE IF key_type = "TAG"
        THEN Returned(LeafFilter("TagFilter", identifier.key, operator.operator, value.value))
        ELSE Raised(Error("Exception", "Unexpected key_type", <<>>))

_single_filter_from_tokens(identifier_token, operator_token, value_token) ==
    LET identifier == _parse_identifier(identifier_token)
        operator == _parse_operator(operator_token)
        value == _parse_value(identifier.key_type, operator.operator, value_token)
        invalid == _validate_operator(identifier.key_type, operator.operator, value.value)
        key_type == identifier.key_type
    IN  IF ~identifier.ok THEN Raised(identifier.error)
        ELSE IF ~operator.ok THEN Raised(operator.error)
        ELSE IF ~value.ok THEN Raised(value.error)
        ELSE IF invalid # NoError THEN Raised(invalid)
        ELSE IF key_type = "RUN_ID"
        THEN Returned(LeafFilter("RunIdFilter", <<>>, operator.operator, value.value))
        ELSE IF key_type = "STATUS"
        THEN Returned(LeafFilter("RunStatusFilter", <<>>, operator.operator, value.value))
        ELSE IF key_type = "PARAM"
        THEN Returned(LeafFilter("ParamFilter", identifier.key, operator.operator, value.value))
        ELSE IF key_type = "METRIC"
        THEN Returned(LeafFilter("MetricFilter", identifier.key, operator.operator, value.value))
        ELSE IF key_type = "TAG"
        THEN Returned(LeafFilter("TagFilter", identifier.key, operator.operator, value.value))
        ELSE Raised(Error("Exception", "Unexpected key_type", <<>>))

(***************************************************************************)
(* filter.py: the token-list parser                                        *)
(***************************************************************************)
_is_and(token) == match(token, Keyword, {<<"A","N","D">>})

_is_or(token) == match(token, Keyword, {<<"O","R">>})

\* the condition argument of _split_list, by name
Satisfies(condition, token) == IF condition = "_is_or" THEN _is_or(token) ELSE _is_and(token)

\* fault: empty chunks are left out
RECURSIVE _split_list_EmptyDropped(_, _)
_split_list_EmptyDropped(source_list, condition) ==
    IF \E i \in 1..Len(source_list) : Satisfies(condition, source_list[i])
    THEN LET i == CHOOSE k \in 1..Len(source_list) :
                      /\ Satisfies(condition, source_list[k])
                      /\ \A j \in 1..(k - 1) : ~Satisfies(condition, source_list[j])
         IN  (IF i = 1 THEN <<>> ELSE <<SubSeq(source_list, 1, i - 1)>>)
                 \o _split_list_EmptyDropped(SubSeq(source_list, i + 1, Len(source_list)),
                                             condition)
    ELSE IF Len(source_list) = 0 THEN <<>> ELSE <<source_list>>

\* the chunks of source_list between the values that satisfy the condition:
\* one more chunk than there are such values, empty chunks included
RECURSIVE _split_list(_, _)
_split_list(source_list, condition) ==
    IF \E i \in 1..Len(source_list) : Satisfies(condition, source_list[i])
    THEN LET i == CHOOSE k \in 1..Len(source_list) :
                      /\ Satisfies(condition, source_list[k])
                      /\ \A j \in 1..(k - 1) : ~Satisfies(condition, source_list[j])
         IN  <<SubSeq(source_list, 1, i - 1)>>
                 \o _split_list(SubSeq(source_list, i + 1, Len(source_list)), condition)
    ELSE <<source_list>>

\* " ".join(t.normalized for t in tokens)
RECURSIVE JoinNormalized(_)
JoinNormalized(tokens) ==
    IF Len(tokens) = 0 THEN <<>>
    ELSE IF Len(tokens) = 1 THEN normalized(tokens[1])
    ELSE normalized(tokens[1]) \o <<" ">> \o JoinNormalized(Tail(tokens))

UNSUPPORTED_COMPONENT(text) == Error("UnsupportedComponent", "", text)

\* fault: a chain of more than two parts is built as nested binary compounds
RECURSIVE CombineParts_Nested(_, _)
CombineParts_Nested(operator, outcomes) ==
    IF \E i \in 1..Len(outcomes) : outcomes[i].status = "raised"
    THEN outcomes[CHOOSE i \in 1..Len(outcomes) :
                      /\ outcomes[i].status = "raised"
                      /\ \A j \in 1..(i - 1) : outcomes[j].status # "raised"]
    ELSE IF Len(outcomes) <= 2
    THEN Returned(CompoundFilter(operator, [i \in 1..Len(outcomes) |-> outcomes[i].filter]))
    ELSE Returned(CompoundFilter(operator,
             <<CombineParts_Nested(operator, SubSeq(outcomes, 1, Len(outcomes) - 1)).filter,
               outcomes[Len(outcomes)].filter>>))

\* fault: every part is parsed and the error of the last failing one is raised
CombineParts_LastError(operator, outcomes) ==
    IF \E i \in 1..Len(outcomes) : outcomes[i].status = "raised"
    THEN outcomes[CHOOSE i \in 1..Len(outcomes) :
                      /\ outcomes[i].status = "raised"
                      /\ \A j \in (i + 1)..Len(outcomes) : outcomes[j].status # "raised"]
    ELSE Returned(CompoundFilter(operator, [i \in 1..Len(outcomes) |-> outcomes[i].filter]))

\* the loop (for part in parts: filters.append(parse(part))) followed by
\* CompoundFilter(operator, filters): the first part that raises ends the loop
\* with its error
CombineParts(operator, outcomes) ==
    IF \E i \in 1..Len(outcomes) : outcomes[i].status = "raised"
    THEN outcomes[CHOOSE i \in 1..Len(outcomes) :
                      /\ outcomes[i].status = "raised"
                      /\ \A j \in 1..(i - 1) : outcomes[j].status # "raised"]
    ELSE Returned(CompoundFilter(operator, [i \in 1..Len(outcomes) |-> outcomes[i].filter]))

\* fault: the closing parenthesis is kept (tokens[1:])
StripParentheses_KeepClosing(tokens) == SubSeq(tokens, 2, Len(tokens))

\* token.tokens[1:-1]: the tokens of a Parenthesis without its first and last
StripParentheses(tokens) == SubSeq(tokens, 2, Len(tokens) - 1)

RECURSIVE _parse_token_list(_)

\* fault: the token list is split on AND before it is split on OR
_parse_token_list_AndFirst(all_tokens) ==
    LET tokens == SelectSeq(all_tokens, LAMBDA t : ~is_whitespace(t))
    IN  IF \E i \in 1..Len(tokens) : _is_and(tokens[i])
        THEN LET parts == _split_list(tokens, "_is_and")
             IN  CombineParts("AND", [i \in 1..Len(parts) |-> _parse_token_list(parts[i])])
        ELSE IF \E i \in 1..Len(tokens) : _is_or(tokens[i])
        THEN LET parts == _split_list(tokens, "_is_or")
             IN  CombineParts("OR", [i \in 1..Len(parts) |-> _parse_token_list(parts[i])])
        ELSE IF Len(tokens) = 1
        THEN LET token == tokens[1]
             IN  IF token.cls = "Parenthesis"
                 THEN _parse_token_list(StripParentheses(token.tokens))
                 ELSE IF token.cls = "Comparison"
                 THEN _parse_token_list(token.tokens)
                 ELSE Raised(UNSUPPORTED_COMPONENT(normalized(token)))
        ELSE IF Len(tokens) = 3
        THEN _single_filter_from_tokens(tokens[1], tokens[2], tokens[3])
        ELSE Raised(UNSUPPORTED_COMPONENT(JoinNormalized(tokens)))

_parse_token_list(all_tokens) ==
    LET tokens == SelectSeq(all_tokens, LAMBDA t : ~is_whitespace(t))
    IN  IF \E i \in 1..Len(tokens) : _is_or(tokens[i])
        THEN LET parts == _split_list(tokens, "_is_or")
             IN  CombineParts("OR", [i \in 1..Len(parts) |-> _parse_token_list(parts[i])])
        ELSE IF \E i \in 1..Len(tokens) : _is_and(tokens[i])
        THEN LET parts == _split_list(tokens, "_is_and")
             IN  CombineParts("AND", [i \in 1..Len(parts) |-> _parse_token_list(parts[i])])
        ELSE IF Len(tokens) = 1
        THEN LET token == tokens[1]
             IN  IF token.cls = "Parenthesis"
                 THEN _parse_token_list(StripParentheses(token.tokens))
                 ELSE IF token.cls = "Comparison"
                 THEN _parse_token_list(token.tokens)
                 ELSE Raised(UNSUPPORTED_COMPONENT(normalized(token)))
        ELSE IF Len(tokens) = 3
        THEN _single_filter_from_tokens(tokens[1], tokens[2], tokens[3])
        ELSE Raised(UNSUPPORTED_COMPONENT(JoinNormalized(tokens)))

\* fault: the first statement is parsed, however many there are
_parse_filter_string_FirstStatement(mlflow_filter_string) ==
    IF mlflow_filter_string.raises
    THEN Raised(Error("ErrorParsingFilter", "", mlflow_filter_string.text))
    ELSE IF Len(mlflow_filter_string.parsed) = 0
    THEN Raised(Error("NotSingleStatement", "", mlflow_filter_string.text))
    ELSE _parse_token_list(mlflow_filter_string.parsed[1].tokens)

\* fault: the list of parts outlives the call, so that a compound also holds
\* the parts of the compound returned before it
_parse_filter_string_PartsShared(mlflow_filter_string) ==
    LET outcome ==
            IF mlflow_filter_string.raises
            THEN Raised(Error("ErrorParsingFilter", "", mlflow_filter_string.text))
            ELSE IF Len(mlflow_filter_string.parsed) # 1
            THEN Raised(Error("NotSingleStatement", "", mlflow_filter_string.text))
            ELSE IF mlflow_filter_string.parsed[1].cls # "Statement"
            THEN Raised(Error("NotSingleStatement", "", mlflow_filter_string.text))
            ELSE _parse_token_list(mlflow_filter_string.parsed[1].tokens)
        before == IF Len(earlier) > 0 THEN earlier[Len(earlier)].result ELSE NoResult
    IN  IF outcome.filter.node = "CompoundFilter" /\ before.filter.node = "CompoundFilter"
        THEN Returned(CompoundFilter(outcome.filter.operator,
                          before.filter.conditions \o outcome.filter.conditions))
        ELSE outcome

\* mlflow_filter_string is the string with what sqlparse.parse does on it:
\* [isNone, text, raises, parsed], parsed being the tuple of statements
_parse_filter_string(mlflow_filter_string) ==
    IF mlflow_filter_string.raises
    THEN Raised(Error("ErrorParsingFilter", "", mlflow_filter_string.text))
    ELSE IF Len(mlflow_filter_string.parsed) # 1
    THEN Raised(Error("NotSingleStatement", "", mlflow_filter_string.text))
    ELSE IF mlflow_filter_string.parsed[1].cls # "Statement"
    THEN Raised(Error("NotSingleStatement", "", mlflow_filter_string.text))
    ELSE _parse_token_list(mlflow_filter_string.parsed[1].tokens)

(***************************************************************************)
(* filter.py: the filter of search_runs                                    *)
(***************************************************************************)
MatchesNothing == Error("MatchesNothing", "", <<>>)

\* fault: a single ID is not returned bare
_filter_by_experiment_id_AlwaysCompound(experiment_ids) ==
    IF Len(experiment_ids) = 0 THEN Raised(MatchesNothing)
    ELSE IF \E i \in 1..Len(experiment_ids) : ~IsIntText(experiment_ids[i])
    THEN Raised(Error("ValueError", "invalid literal for int()", <<>>))
    ELSE Returned(CompoundFilter("OR",
             [i \in 1..Len(experiment_ids) |->
                 LeafFilter("ExperimentIdFilter", <<>>, "EQUAL_TO",
                            IntValue(IntOf(experiment_ids[i])))]))

\* fault: the filters are collected in reverse order
_filter_by_experiment_id_Reversed(experiment_ids) ==
    IF Len(experiment_ids) = 0 THEN Raised(MatchesNothing)
    ELSE IF \E i \in 1..Len(experiment_ids) : ~IsIntText(experiment_ids[i])
    THEN Raised(Error("ValueError", "invalid literal for int()", <<>>))
    ELSE LET n == Len(experiment_ids)
             parts == [i \in 1..n |->
                          LeafFilter("ExperimentIdFilter", <<>>, "EQUAL_TO",
                                     IntValue(IntOf(experiment_ids[n + 1 - i])))]
         IN  IF n = 1 THEN Returned(parts[1])
             ELSE Returned(CompoundFilter("OR", parts))

\* experiment_ids is a sequence of IDs as texts; int() raises on the first
\* ID that is no integer
_filter_by_experiment_id(experiment_ids) ==
    IF Len(experiment_ids) = 0 THEN Raised(MatchesNothing)
    ELSE IF \E i \in 1..Len(experiment_ids) : ~IsIntText(experiment_ids[i])
    THEN Raised(Error("ValueError", "invalid literal for int()",
                      experiment_ids[CHOOSE i \in 1..Len(experiment_ids) :
                          /\ ~IsIntText(experiment_ids[i])
                          /\ \A j \in 1..(i - 1) : IsIntText(experiment_ids[j])]))
    ELSE LET parts == [i \in 1..Len(experiment_ids) |->
                          LeafFilter("ExperimentIdFilter", <<>>, "EQUAL_TO",
                                     IntValue(IntOf(experiment_ids[i])))]
         IN  IF Len(parts) = 1 THEN Returned(parts[1])
             ELSE Returned(CompoundFilter("OR", parts))

\* returns None (NoneFilter) for ViewType.ALL
_filter_by_mlflow_view_type(view_type) ==
    IF view_type = "ACTIVE_ONLY"
    THEN Returned(LeafFilter("DeletedAtFilter", <<>>, "DEFINED", BoolValue(FALSE)))
    ELSE IF view_type = "DELETED_ONLY"
    THEN Returned(LeafFilter("DeletedAtFilter", <<>>, "DEFINED", BoolValue(TRUE)))
    ELSE IF view_type = "ALL" THEN Returned(NoneFilter)
    ELSE Raised(Error("InvalidViewType", "", <<>>))

\* fault: the view-type filter is put before the experiment-ID filter
build_search_runs_filter_ViewTypeFirst(experiment_ids, filter_string, view_type) ==
    LET by_id == _filter_by_experiment_id(experiment_ids.ids)
        deleted_at_filter == _filter_by_mlflow_view_type(view_type)
        has_string == ~filter_string.isNone /\ ~IsBlank(filter_string.text)
        parsed == _parse_filter_string(filter_string)
        filter_parts ==
            (IF deleted_at_filter.filter # NoneFilter
             THEN <<deleted_at_filter.filter>> ELSE <<>>)
            \o (IF ~experiment_ids.isNone THEN <<by_id.filter>> ELSE <<>>)
            \o (IF has_string THEN <<parsed.filter>> ELSE <<>>)
    IN  IF ~experiment_ids.isNone /\ by_id.status = "raised" THEN by_id
        ELSE IF deleted_at_filter.status = "raised" THEN deleted_at_filter
        ELSE IF has_string /\ parsed.status = "raised" THEN parsed
        ELSE IF Len(filter_parts) = 0 THEN Returned(NoneFilter)
        ELSE IF Len(filter_parts) = 1 THEN Returned(filter_parts[1])
        ELSE Returned(CompoundFilter("AND", filter_parts))

\* experiment_ids is [isNone, ids]
build_search_runs_filter(experiment_ids, filter_string, view_type) ==
    LET by_id == _filter_by_experiment_id(experiment_ids.ids)
        deleted_at_filter == _filter_by_mlflow_view_type(view_type)
        has_string == ~filter_string.isNone /\ ~IsBlank(filter_string.text)
        parsed == _parse_filter_string(filter_string)
        filter_parts ==
            (IF ~experiment_ids.isNone THEN <<by_id.filter>> ELSE <<>>)
            \o (IF deleted_at_filter.filter # NoneFilter
                THEN <<deleted_at_filter.filter>> ELSE <<>>)
            \o (IF has_string THEN <<parsed.filter>> ELSE <<>>)
    IN  IF ~experiment_ids.isNone /\ by_id.status = "raised" THEN by_id
        ELSE IF deleted_at_filter.status = "raised" THEN deleted_at_filter
        ELSE IF has_string /\ parsed.status = "raised" THEN parsed
        ELSE IF Len(filter_parts) = 0 THEN Returned(NoneFilter)
        ELSE IF Len(filter_parts) = 1 THEN Returned(filter_parts[1])
        ELSE Returned(CompoundFilter("AND", filter_parts))

(***************************************************************************)
(* Inputs: the token lists sqlparse gives for filter strings               *)
(***************************************************************************)
MaxLeaves == 3      \* leaf expressions in one filter string
MaxParens == 1      \* parenthesis groups in one filter string
MaxWraps == 2       \* parentheses wrapped around one whole filter string
MaxIds == 2         \* experiment IDs in one call
MaxCalls == 2       \* calls of the parser made before the one looked at

WS == Tok(Whitespace, <<" ">>)

\* the first token of a leaf: identifiers of every alias set, quoted and
\* unquoted keys, and what is no identifier of the grammar
IdentifierTokens ==
    { SqlIdentifier(v) : v \in
        { <<"r","u","n",".","i","d">>, <<"a","t","t","r","i","b","u","t","e","s",".","r","u","n","_","i","d">>, <<"a","t","t","r",".","\"","i","d","\"">>, <<"a","t","t","r","i","b","u","t","e",".",BACKTICK,"r","u","n","_","i","d",BACKTICK>>,
          <<"a","t","t","r",".","s","t","a","t","u","s">>, <<"r","u","n",".",BACKTICK,"s","t","a","t","u","s",BACKTICK>>, <<"a","t","t","r","i","b","u","t","e",".","\"","s","t","a","t","u","s","\"">>,
          <<"a","t","t","r","i","b","u","t","e",".","x">>, <<"r","u","n",".","'","i","d","'">>, <<"r","u","n",".","r","u","n","I","d">>,
          <<"p","a","r","a","m",".","a">>, <<"p","a","r","a","m","s",".","\"","a","\"">>, <<"p","a","r","a","m","e","t","e","r",".",BACKTICK,"a",".","b",BACKTICK>>, <<"p","a","r","a","m","e","t","e","r","s",".","'","a","'">>,
          <<"m","e","t","r","i","c",".","a">>, <<"m","e","t","r","i","c","s",".",BACKTICK,"a",BACKTICK>>, <<"t","a","g",".","a">>, <<"t","a","g","s",".","\"","a","\"">>, <<"t","a","g",".","'","a","'">>,
          <<"p","a","r","a","m",".","\"","a",BACKTICK>>, <<"p","a","r","a","m",".">>, <<"t","a","g",".",BACKTICK,"\"","a","\"",BACKTICK>>,
          <<"a">>, <<"p","a","r","a","m">>, <<"p",".","a">>, <<"P","a","r","a","m",".","a">>, <<"T","A","G",".","a">> } }
    \cup { Tok(NumberInteger, <<"1">>), Tok(StringSingle, <<"'","p","a","r","a","m",".","a","'">>) }

\* the second token of a leaf
OperatorTokens ==
    { Tok(Keyword, <<"I","S">>), Tok(Keyword, <<"i","s">>), Tok(Keyword, <<"I","N">>) }
    \cup { Tok(Comparison, v) : v \in
             { <<"=">>, <<"!","=">>, <<">">>, <<">","=">>, <<"<">>, <<"<","=">>, <<"<",">">>, <<"=","=">>, <<"L","I","K","E">> } }

AUuid == <<"3","f","a","8","5","f","6","4","-","5","7","1","7","-","4","5","6","2","-","b","3","f","c","-","2","c","9","6","3","f","6","6","a","f","a","6">>

\* the third token of a leaf: sqlparse gives a single-quoted string as a
\* String.Single token and a double-quoted or backtick-quoted string, like a
\* bare word, as an Identifier
ValueTokens ==
    { Tok(Keyword, v) : v \in
        { <<"N","U","L","L">>, <<"n","u","l","l">>, <<"N","O","T"," ","N","U","L","L">>, <<"N","o","t"," "," "," ","N","u","l","l">>, <<"N","O","T","\t","N","U","L","L">>, <<"N","O","T">> } }
    \cup { Tok(StringSingle, v) : v \in
        { <<"'","v","'">>, <<"'","'">>, <<"'","r","u","n","n","i","n","g","'">>, <<"'","K","i","l","l","e","d","'">>, <<"'","N","U","L","L","'">>,
          <<"'">> \o AUuid \o <<"'">> } }
    \cup { SqlIdentifier(v) : v \in
        { <<"\"","v","\"">>, <<BACKTICK,"v",BACKTICK>>, <<"v">>, <<"\"","F","I","N","I","S","H","E","D","\"">>, <<"\"","v","\"",".","'","w","'">>, <<"\"","v","\"",".","\"","w","\"">>,
          <<"\"">> \o upper(AUuid) \o <<"\"">> } }
    \cup { Tok(NumberInteger, <<"2">>), Tok(NumberInteger, <<"2","0">>),
           Tok(NumberFloat, <<"2",".","1">>), Tok(NumberFloat, <<"2",".","1","0">>),
           Tok(NumberFloat, <<"2",".","0">>),
           Tok(NumberHex, <<"0","x","1","F">>) }

\* sqlparse groups (identifier comparison value) into one Comparison; a
\* leaf with a keyword operator stays three tokens
LeafTokens(identifier_token, operator_token, value_token) ==
    LET flat == <<identifier_token, WS, operator_token, WS, value_token>>
    IN  IF operator_token.ttype = Comparison /\ ~match_not_null(value_token)
        THEN <<Group("Comparison", flat)>>
        ELSE flat

\* the leaves the compound filter strings are made of
SampleLeaves ==
    { LeafTokens(SqlIdentifier(<<"p","a","r","a","m",".","a">>), Tok(Comparison, <<">">>), Tok(NumberInteger, <<"2","0">>)),
      LeafTokens(SqlIdentifier(<<"m","e","t","r","i","c",".","a">>), Tok(Keyword, <<"I","S">>), Tok(Keyword, <<"N","O","T"," ","N","U","L","L">>)) }

LogicalKeywords == { Tok(Keyword, <<"A","N","D">>), Tok(Keyword, <<"o","r">>) }

Paren(pad, inner) ==
    Group("Parenthesis", <<Tok(Punctuation, <<"(">>)>> \o pad \o inner \o pad
                             \o <<Tok(Punctuation, <<")">>)>>)

\* the token lists with exactly n leaves and at most k parenthesis groups,
\* pad being the whitespace inside the parentheses
RECURSIVE TokenLists(_, _, _)
Operands(n, k, pad) ==
    (IF n = 1 THEN SampleLeaves ELSE {})
    \cup (IF k >= 1 THEN { <<Paren(pad, inner)>> : inner \in TokenLists(n, k - 1, pad) }
          ELSE {})

TokenLists(n, k, pad) ==
    Operands(n, k, pad)
    \cup UNION { { first \o <<WS, keyword, WS>> \o rest :
                     first \in Operands(m, j, pad),
                     keyword \in LogicalKeywords,
                     rest \in TokenLists(n - m, k - j, pad) } :
                 m \in 1..(n - 1), j \in 0..k }

\* tokens wrapped in k pairs of parentheses
RECURSIVE Wrapped(_, _, _)
Wrapped(k, pad, tokens) ==
    IF k = 0 THEN tokens ELSE <<Paren(pad, Wrapped(k - 1, pad, tokens))>>

\* token lists with an empty operand
MalformedTokenLists ==
    LET A == LeafTokens(SqlIdentifier(<<"t","a","g",".","a">>), Tok(Comparison, <<"=">>), Tok(StringSingle, <<"'","v","'">>))
        AND == Tok(Keyword, <<"A","N","D">>)
        OR == Tok(Keyword, <<"O","R">>)
    IN  { <<AND>>, <<OR>>, A \o <<WS, AND>>, <<OR, WS>> \o A,
          A \o <<WS, AND, WS, AND, WS>> \o A, A \o <<WS, OR, WS, AND, WS>> \o A,
          <<Paren(<<>>, <<>>)>>, A \o <<WS, AND, WS, Paren(<<WS>>, <<>>)>>,
          A \o <<WS>> \o A, <<Paren(<<>>, A \o <<WS, OR>>)>>,
          <<SqlIdentifier(<<"t","a","g",".","a">>)>>,
          <<SqlIdentifier(<<"t","a","g",".","a">>), WS, Tok(Keyword, <<"I","S">>), WS, Tok(Keyword, <<"N","U","L","L">>),
            WS, Tok(Keyword, <<"N","U","L","L">>)>> }

\* a valid leaf and leaves with one defect each: an invalid identifier, an
\* invalid operator, an invalid value
FaultyLeaves ==
    { LeafTokens(SqlIdentifier(<<"t","a","g",".","a">>), Tok(Comparison, <<"=">>), Tok(StringSingle, <<"'","v","'">>)),
      LeafTokens(SqlIdentifier(<<"p",".","a">>), Tok(Comparison, <<"=">>), Tok(StringSingle, <<"'","v","'">>)),
      LeafTokens(SqlIdentifier(<<"t","a","g",".","a">>), Tok(Keyword, <<"I","N">>), Tok(StringSingle, <<"'","v","'">>)),
      LeafTokens(SqlIdentifier(<<"m","e","t","r","i","c",".","a">>), Tok(Comparison, <<"=">>), Tok(StringSingle, <<"'","v","'">>)) }

\* n leaves, valid or not, joined by one logical keyword
RECURSIVE FaultyChains(_, _)
FaultyChains(n, keyword) ==
    IF n = 1 THEN FaultyLeaves
    ELSE { first \o <<WS, keyword, WS>> \o rest :
             first \in FaultyLeaves, rest \in FaultyChains(n - 1, keyword) }

FaultyTokenLists ==
    UNION { FaultyChains(n, keyword) : n \in 2..MaxLeaves, keyword \in LogicalKeywords }

Statement(pad, tokens) ==
    [isNone |-> FALSE, text |-> Flat(pad \o tokens \o pad), raises |-> FALSE,
     parsed |-> <<Group("Statement", pad \o tokens \o pad)>>]

NoFilterString == [isNone |-> TRUE, text |-> <<>>, raises |-> FALSE, parsed |-> <<>>]

\* "", "  ", two statements, a string the tokenizer raises on, and a
\* tokenizer result that is no Statement
OtherFilterStrings ==
    LET A == LeafTokens(SqlIdentifier(<<"t","a","g",".","a">>), Tok(Comparison, <<"=">>), Tok(StringSingle, <<"'","v","'">>))
    IN  { [isNone |-> FALSE, text |-> <<>>, raises |-> FALSE, parsed |-> <<>>],
          Statement(<<WS>>, <<>>),
          [isNone |-> FALSE, text |-> <<"t","a","g",".","a"," ","="," ","'","v","'",";"," ","t","a","g",".","a"," ","="," ","'","v","'">>, raises |-> FALSE,
           parsed |-> <<Group("Statement", A \o <<Tok(Punctuation, <<";">>)>>),
                        Group("Statement", <<WS>> \o A)>>],
          [isNone |-> FALSE, text |-> <<"t","a","g",".","a"," ","="," ","'","v">>, raises |-> TRUE, parsed |-> <<>>],
          [isNone |-> FALSE, text |-> <<"(","t","a","g",".","a"," ","="," ","'","v","'",")">>, raises |-> FALSE,
           parsed |-> <<Paren(<<>>, A)>>] }

FilterStrings ==
    { Statement(<<>>, tokens) :
        tokens \in UNION { TokenLists(n, MaxParens, <<>>) : n \in 1..MaxLeaves } }
    \cup UNION { { Statement(pad, Wrapped(k, pad, tokens)) :
                     k \in 1..MaxWraps,
                     tokens \in UNION { TokenLists(n, 0, pad) : n \in 1..MaxLeaves }
                                  \cup MalformedTokenLists } :
                 pad \in {<<>>, <<WS>>} }
    \cup { Statement(<<>>, tokens) : tokens \in MalformedTokenLists \cup FaultyTokenLists }
    \cup OtherFilterStrings

ExperimentIdLists ==
    UNION { [1..n -> { <<"1">>, <<"2","3">>, <<"x">> }] : n \in 0..MaxIds }

NoCall ==
    [fn |-> "", tokens |-> <<>>, filter_string |-> NoFilterString,
     experiment_ids |-> [isNone |-> TRUE, ids |-> <<>>], view_type |-> "ALL"]

Calls ==
    { [NoCall EXCEPT !.fn = "_single_filter_from_tokens", !.tokens = <<i, o, v>>] :
        i \in IdentifierTokens, o \in OperatorTokens, v \in ValueTokens }
    \cup { [NoCall EXCEPT !.fn = "_parse_filter_string", !.filter_string = s] :
             s \in FilterStrings }
    \cup { [NoCall EXCEPT !.fn = "_filter_by_experiment_id", !.experiment_ids.isNone = FALSE,
                          !.experiment_ids.ids = ids] : ids \in ExperimentIdLists }
    \cup { [NoCall EXCEPT !.fn = "build_search_runs_filter",
                          !.experiment_ids = e, !.filter_string = s, !.view_type = v] :
             e \in { [isNone |-> TRUE, ids |-> <<>>] }
                     \cup { [isNone |-> FALSE, ids |-> ids] : ids \in ExperimentIdLists },
             s \in { NoFilterString } \cup OtherFilterStrings
                     \cup { Statement(<<>>, t) : t \in SampleLeaves }
                     \cup { Statement(<<>>, LeafTokens(SqlIdentifier(<<"p",".","a">>),
                                Tok(Comparison, <<"=">>), Tok(StringSingle, <<"'","v","'">>))) },
             v \in { "ACTIVE_ONLY", "DELETED_ONLY", "ALL", "other" } }

\* no store operation in progress, no account looked up
NoLocals == [filter |-> NoneFilter, faculty_runs |-> <<>>, started |-> FALSE,
             next_page |-> [isNone |-> TRUE, start |-> 0, limit |-> 0]]

NoAccount == [isNone |-> TRUE, user_id |-> <<>>, username |-> <<>>]

(***************************************************************************)
(* The calls                                                               *)
(***************************************************************************)
Init ==
    /\ call \in Calls
    /\ pc = "called"
    /\ result = NoResult
    /\ earlier = <<>>
    /\ requests = <<>>
    /\ local = NoLocals
    /\ _account_cache = NoAccount

Return(outcome) ==
    /\ pc = "called"
    /\ pc' = "done"
    /\ result' = outcome
    /\ UNCHANGED <<call, earlier, requests, local, _account_cache>>

SingleFilterFromTokens ==
    /\ call.fn = "_single_filter_from_tokens"
    /\ Return(_single_filter_from_tokens(call.tokens[1], call.tokens[2], call.tokens[3]))

ParseFilterString ==
    /\ call.fn = "_parse_filter_string"
    /\ Return(_parse_filter_string(call.filter_string))

FilterByExperimentId ==
    /\ call.fn = "_filter_by_experiment_id"
    /\ Return(_filter_by_experiment_id(call.experiment_ids.ids))

BuildSearchRunsFilter ==
    /\ call.fn = "build_search_runs_filter"
    /\ Return(build_search_runs_filter(call.experiment_ids, call.filter_string, call.view_type))

Next ==
    \/ SingleFilterFromTokens
    \/ ParseFilterString
    \/ FilterByExperimentId
    \/ BuildSearchRunsFilter

Spec == Init /\ [][Next]_vars

(***************************************************************************)
(* The parser called again and again                                       *)
(***************************************************************************)
\* strings of every outcome: a leaf, compounds, invalid leaves, an empty
\* operand, the empty string and a string the tokenizer raises on
RepeatedFilterStrings ==
    LET A == LeafTokens(SqlIdentifier(<<"t","a","g",".","a">>), Tok(Comparison, <<"=">>), Tok(StringSingle, <<"'","v","'">>))
        B == LeafTokens(SqlIdentifier(<<"m","e","t","r","i","c",".","a">>), Tok(Comparison, <<">">>), Tok(NumberFloat, <<"2",".","1">>))
        C == LeafTokens(SqlIdentifier(<<"p",".","a">>), Tok(Comparison, <<"=">>), Tok(StringSingle, <<"'","v","'">>))
        AND == Tok(Keyword, <<"A","N","D">>)
        OR == Tok(Keyword, <<"O","R">>)
    IN  { Statement(<<>>, A),
          Statement(<<>>, A \o <<WS, AND, WS>> \o B),
          Statement(<<>>, B \o <<WS, OR, WS, Paren(<<>>, A \o <<WS, AND, WS>> \o B)>>),
          Statement(<<>>, A \o <<WS, AND, WS>> \o C),
          Statement(<<>>, A \o <<WS, OR>>),
          [isNone |-> FALSE, text |-> <<>>, raises |-> FALSE, parsed |-> <<>>],
          [isNone |-> FALSE, text |-> <<"t","a","g",".","a"," ","="," ","'","v">>, raises |-> TRUE, parsed |-> <<>>] }

RepeatedCalls ==
    { [NoCall EXCEPT !.fn = "_parse_filter_string", !.filter_string = s] :
        s \in RepeatedFilterStrings }

InitRepeated ==
    /\ call \in RepeatedCalls
    /\ pc = "called"
    /\ result = NoResult
    /\ earlier = <<>>
    /\ requests = <<>>
    /\ local = NoLocals
    /\ _account_cache = NoAccount

\* the caller takes the outcome and calls the parser on another string or on
\* the same one
CallAgain ==
    /\ pc = "done"
    /\ call.fn = "_parse_filter_string"
    /\ Len(earlier) < MaxCalls
    /\ earlier' = Append(earlier, [filter_string |-> call.filter_string, result |-> result])
    /\ call' \in RepeatedCalls
    /\ pc' = "called"
    /\ result' = NoResult
    /\ UNCHANGED <<requests, local, _account_cache>>

NextRepeated ==
    \/ ParseFilterString
    \/ CallAgain

SpecRepeated == InitRepeated /\ [][NextRepeated]_vars

(***************************************************************************)
(* tracking.py, trackingstore.py: FacultyRestStore and its remote client   *)
(***************************************************************************)
MaxResults == 2
MaxRequests == 3

\* an exception leaving the store; a message is a sequence of its pieces
Exception(class, message) == [class |-> class, message |-> message]
NoException == Exception("", <<>>)
MlflowException(message) == Exception("MlflowException", message)

\* str(e) for an error of the filter builders: the message it was raised with
str(error) == <<error.kind, error.expected>> \o error.text

\* faculty.clients.base.HttpError, with the attributes the store reads
HttpErrors ==
    { [error |-> "Experiment not found", error_code |-> "not_found", status_code |-> "404"],
      [error |-> "Internal server error", error_code |-> "internal", status_code |-> "500"] }

\* fault: the HttpError is raised as it is
faculty_http_error_to_mlflow_exception_Raw(faculty_http_error) ==
    Exception("HttpError", <<faculty_http_error.error>>)

faculty_http_error_to_mlflow_exception(faculty_http_error) ==
    MlflowException(<<faculty_http_error.error, ". Received response ",
                      faculty_http_error.error_code, " with status code ",
                      faculty_http_error.status_code>>)

\* the run the remote delivers as the i-th of its k-th response
FacultyRun(k, i) ==
    [id |-> <<k, i>>, deleted_at |-> IF i = 2 THEN "2019-01-01" ELSE "None"]

\* the fields of the conversion that tell a run from another
faculty_run_to_mlflow_run(faculty_run) ==
    [run_id |-> [hex |-> faculty_run.id],
     lifecycle_stage |-> IF faculty_run.deleted_at = "None" THEN "active" ELSE "deleted"]

\* what an operation of the store did
StoreReturned(value) == [status |-> "returned", value |-> value, error |-> NoException]
StoreRaised(exception) == [status |-> "raised", value |-> <<>>, error |-> exception]

\* pagination.next of a response
NoPage == [isNone |-> TRUE, start |-> 0, limit |-> 0]
Page(start, limit) == [isNone |-> FALSE, start |-> start, limit |-> limit]
\* the k-th answer of the remote to query_runs or list_runs: a page of no,
\* one or two runs, with or without a next page, or an HttpError
Responses(k) ==
    { [raises |-> FALSE, class |-> "", error |-> NoException,
       runs |-> [i \in 1..n |-> FacultyRun(k, i)], pagination |-> [next |-> next]] :
        n \in 0..2, next \in { NoPage, Page(2, 2), Page(3, 1) } }
    \cup { [raises |-> TRUE, class |-> "HttpError", error |-> e,
             runs |-> <<>>, pagination |-> [next |-> NoPage]] : e \in HttpErrors }

\* fault: one item more than stop is taken
islice_OneMore(iterable, stop) ==
    IF Len(iterable) <= stop + 1 THEN iterable ELSE SubSeq(iterable, 1, stop + 1)

\* itertools.islice(iterable, stop) of a sequence
islice(iterable, stop) ==
    IF Len(iterable) <= stop THEN iterable ELSE SubSeq(iterable, 1, stop)

(***************************************************************************)
(* tracking.py: FacultyRestStore._search_runs                              *)
(***************************************************************************)
None == [isNone |-> TRUE, items |-> <<>>]
Some(items) == [isNone |-> FALSE, items |-> items]

SearchFilterStrings ==
    { NoFilterString } \cup OtherFilterStrings
    \cup { Statement(<<>>, t) : t \in SampleLeaves \cup FaultyLeaves }
    \cup { Statement(<<>>, LeafTokens(SqlIdentifier(<<"t","a","g",".","a">>), Tok(Comparison, <<">">>),
                                      Tok(StringSingle, <<"'","v","'">>))),
           Statement(<<>>, <<Tok(Keyword, <<"A","N","D">>)>>) }

SearchRunsCall(experiment_ids, filter_string, run_view_type, max_results, order_by, page_token) ==
    [fn |-> "_search_runs", experiment_ids |-> experiment_ids,
     filter_string |-> filter_string, run_view_type |-> run_view_type,
     max_results |-> max_results, order_by |-> order_by, page_token |-> page_token]

\* calls for the argument checks, for the filter and for the paging
SearchRunsCalls ==
    { SearchRunsCall(e, s, v, 1, o, t) :
        e \in { [isNone |-> TRUE, ids |-> <<>>], [isNone |-> FALSE, ids |-> <<>>],
                [isNone |-> FALSE, ids |-> << <<"x">> >>] },
        s \in { NoFilterString, Statement(<<>>, <<Tok(Keyword, <<"A","N","D">>)>>) },
        v \in { "ALL", "other" },
        o \in { None, Some(<<>>), Some(<<"metric.a">>) },
        t \in { None, Some(<<"token">>) } }
    \cup { SearchRunsCall(e, s, v, 1, o, None) :
             e \in { [isNone |-> TRUE, ids |-> <<>>] }
                     \cup { [isNone |-> FALSE, ids |-> ids] : ids \in ExperimentIdLists },
             s \in SearchFilterStrings,
             v \in { "ACTIVE_ONLY", "DELETED_ONLY", "ALL", "other" },
             o \in { None, Some(<<>>) } }
    \cup { SearchRunsCall(e, s, "ACTIVE_ONLY", m, None, None) :
             e \in { [isNone |-> TRUE, ids |-> <<>>], [isNone |-> FALSE, ids |-> << <<"1">> >>] },
             s \in { NoFilterString } \cup { Statement(<<>>, t) : t \in SampleLeaves },
             m \in 0..MaxResults }

NoStoreResult == [status |-> "none", value |-> <<>>, error |-> NoException]

\* the return or raise of a store operation
StoreReturn(outcome) ==
    /\ pc' = "done"
    /\ result' = outcome
    /\ UNCHANGED <<call, earlier, _account_cache>>

\* fault: the filter string is parsed before the experiment IDs are looked at
_search_runs_filter_StringFirst(experiment_ids, filter_string, run_view_type) ==
    LET parsed == _parse_filter_string(filter_string)
    IN  IF ~filter_string.isNone /\ ~IsBlank(filter_string.text) /\ parsed.status = "raised"
        THEN parsed
        ELSE build_search_runs_filter(experiment_ids, filter_string, run_view_type)

\* the filter of the call, tracking.py:369-371
_search_runs_filter(experiment_ids, filter_string, run_view_type) ==
    build_search_runs_filter(experiment_ids, filter_string, run_view_type)

\* fault: the message of the ValueError is dropped
_search_runs_except_NoMessage(built) ==
    IF ExceptionClass(built.error) = "MatchesNothing"
    THEN StoreReturned([runs |-> <<>>, token |-> None])
    ELSE IF ExceptionClass(built.error) = "ValueError"
    THEN StoreRaised(MlflowException(<<>>))
    ELSE StoreRaised(Exception(ExceptionClass(built.error), str(built.error)))

\* the except clauses of tracking.py:372-375; any other exception leaves
\* the store as it is
_search_runs_except(built) ==
    IF ExceptionClass(built.error) = "MatchesNothing"
    THEN StoreReturned([runs |-> <<>>, token |-> None])
    ELSE IF ExceptionClass(built.error) = "ValueError"
    THEN StoreRaised(MlflowException(str(built.error)))
    ELSE StoreRaised(Exception(ExceptionClass(built.error), str(built.error)))

\* tracking.py:362-375: the argument checks and the filter; the generator
\* _get_runs is made and not yet started
SearchRunsBuildFilter ==
    /\ call.fn = "_search_runs"
    /\ pc = "called"
    /\ \E built \in { _search_runs_filter(call.experiment_ids, call.filter_string,
                                           call.run_view_type) } :
           IF ~call.order_by.isNone /\ call.order_by.items # <<>>
           THEN /\ StoreReturn(StoreRaised(Exception("ValueError",
                                   <<"order_by not currently supported">>)))
                /\ UNCHANGED <<requests, local>>
           ELSE IF ~call.page_token.isNone
           THEN /\ StoreReturn(StoreRaised(Exception("ValueError",
                                   <<"page_token not currently supported">>)))
                /\ UNCHANGED <<requests, local>>
           ELSE IF built.status = "raised"
           THEN /\ StoreReturn(_search_runs_except(built))
                /\ UNCHANGED <<requests, local>>
           ELSE /\ pc' = "_get_runs"
                /\ local' = [NoLocals EXCEPT !.filter = built.filter]
                /\ UNCHANGED <<call, result, earlier, requests, _account_cache>>

\* fault: the generator asks for the next page although islice has all it takes
WantsRun_Eager == TRUE

\* islice asks the generator for a run: it has not yet taken max_results
WantsRun == Len(local.faculty_runs) < call.max_results

\* fault: the first page is asked for again
RequestedPage_First == NoPage

\* the start and limit of the request: none for the first, tracking.py:378,
\* those of next_page afterwards, tracking.py:384-389
RequestedPage == IF local.started THEN local.next_page ELSE NoPage

\* tracking.py:377-398: islice resumes the generator, which has no run left
\* of its last response and requests a page; the runs islice takes of it
\* are kept
QueryRuns ==
    /\ call.fn = "_search_runs"
    /\ pc = "_get_runs"
    /\ WantsRun
    /\ ~local.started \/ ~local.next_page.isNone
    /\ Len(requests) < MaxRequests
    /\ \E response \in Responses(Len(requests) + 1) :
          /\ requests' = Append(requests,
                 [method |-> "query_runs", filter |-> local.filter,
                  page |-> RequestedPage, response |-> response])
          /\ IF response.raises
             THEN /\ StoreReturn(StoreRaised(
                         faculty_http_error_to_mlflow_exception(response.error)))
                  /\ UNCHANGED local
             ELSE /\ local' = [local EXCEPT
                         !.started = TRUE,
                         !.faculty_runs = islice(@ \o response.runs, call.max_results),
                         !.next_page = response.pagination.next]
                  /\ UNCHANGED <<call, pc, result, earlier, _account_cache>>

\* tracking.py:394-401: islice has max_results runs or the generator has
\* ended; the runs are converted and returned with no page token
SearchRunsReturn ==
    /\ call.fn = "_search_runs"
    /\ pc = "_get_runs"
    /\ ~WantsRun \/ (local.started /\ local.next_page.isNone)
    /\ StoreReturn(StoreReturned(
           [runs |-> [i \in 1..Len(local.faculty_runs) |->
                         faculty_run_to_mlflow_run(local.faculty_runs[i])],
            token |-> None]))
    /\ UNCHANGED <<requests, local>>

(***************************************************************************)
(* trackingstore.py, tracking.py: the operations that make one request     *)
(***************************************************************************)
\* an operation: the client method it calls, the arguments it converts
\* before the request (int(experiment_id), UUID(run_id)) and the exceptions
\* of the client it catches before HttpError
ClientOperation(fn, method, experiment_id, run_id, conflicts) ==
    [fn |-> fn, method |-> method, experiment_id |-> experiment_id,
     run_id |-> run_id, conflicts |-> conflicts]

ClientOperations ==
    { ClientOperation("list_experiments", "list", FALSE, FALSE, {}),
      ClientOperation("get_experiment_by_name", "list", FALSE, FALSE, {}),
      ClientOperation("create_experiment", "create", FALSE, FALSE, {"ExperimentNameConflict"}),
      ClientOperation("get_experiment", "get", TRUE, FALSE, {}),
      ClientOperation("delete_experiment", "delete", TRUE, FALSE, {}),
      ClientOperation("restore_experiment", "restore", TRUE, FALSE, {}),
      ClientOperation("rename_experiment", "update", TRUE, FALSE, {"ExperimentNameConflict"}),
      ClientOperation("get_run", "get_run", FALSE, TRUE, {}),
      ClientOperation("update_run_info", "update_run_info", FALSE, TRUE, {}),
      ClientOperation("create_run", "create_run", TRUE, TRUE, {"ExperimentDeleted"}),
      ClientOperation("delete_run", "delete_runs", FALSE, TRUE, {}),
      ClientOperation("restore_run", "restore_runs", FALSE, TRUE, {}),
      ClientOperation("get_metric_history", "get_metric_history", FALSE, TRUE, {}),
      ClientOperation("log_batch", "log_run_data", FALSE, TRUE, {"ParamConflict"}) }

OperationOf(fn) == CHOOSE op \in ClientOperations : op.fn = fn

\* calls of the operations, each with the arguments it converts: experiment
\* IDs and run IDs are texts, some of which int() or UUID() refuses; None
\* is the absent parent run ID of create_run
StoreCalls ==
    UNION { { [fn |-> op.fn, experiment_id |-> e, run_id |-> r] :
                e \in (IF op.experiment_id THEN { <<"1">>, <<"2","3">>, <<"x">>, <<"1",".","5">> }
                       ELSE { <<>> }),
                r \in (IF op.run_id
                       THEN { Some(AUuid), Some(UuidHex(AUuid)), Some(<<"3","f","a","8","5","f","6","4">>),
                              Some(<<"r","u","n">>) }
                            \cup (IF op.fn = "create_run" THEN { None } ELSE {})
                       ELSE { None }) } :
            op \in ClientOperations }

\* what the client method does: it returns a response (for delete_runs and
\* restore_runs with the lists of run IDs the store reads), or raises
\* HttpError or one of its own exceptions
ClientResponses(op, run_id) ==
    LET ids == SUBSET { run_id, <<"0","0","0","0","0","0","0","0","0","0","0","0","0","0","0","0","0","0","0","0","0","0","0","0","0","0","0","0","0","0","0","1">> }
        none == [raises |-> FALSE, class |-> "", error |-> NoException,
                 deleted_run_ids |-> {}, restored_run_ids |-> {},
                 conflicted_run_ids |-> {}]
    IN  (IF op.method = "delete_runs"
         THEN { [none EXCEPT !.deleted_run_ids = d, !.conflicted_run_ids = c] :
                  d \in ids, c \in ids }
         ELSE IF op.method = "restore_runs"
         THEN { [none EXCEPT !.restored_run_ids = d, !.conflicted_run_ids = c] :
                  d \in ids, c \in ids }
         ELSE { none })
        \cup { [none EXCEPT !.raises = TRUE, !.class = "HttpError", !.error = e] :
                 e \in HttpErrors }
        \cup { [none EXCEPT !.raises = TRUE, !.class = c] : c \in op.conflicts }

\* fault: a conflicted run counts as deleted
delete_run_ConflictIgnored(run_id, response) ==
    IF run_id \in response.deleted_run_ids \cup response.conflicted_run_ids
    THEN StoreReturned(None)
    ELSE StoreRaised(MlflowException(<<"Could not delete non-existent run ">> \o run_id))

\* trackingstore.py:279-288, tracking.py:282-291: run_id is the UUID, which
\* is its hex text
delete_run(run_id, response) ==
    IF run_id \in response.deleted_run_ids THEN StoreReturned(None)
    ELSE IF run_id \in response.conflicted_run_ids
    THEN StoreRaised(MlflowException(<<"Could not delete already-deleted run ">> \o run_id))
    ELSE StoreRaised(MlflowException(<<"Could not delete non-existent run ">> \o run_id))

\* trackingstore.py:303-312, tracking.py:306-315
restore_run(run_id, response) ==
    IF run_id \in response.restored_run_ids THEN StoreReturned(None)
    ELSE IF run_id \in response.conflicted_run_ids
    THEN StoreRaised(MlflowException(<<"Could not restore already-active run ">> \o run_id))
    ELSE StoreRaised(MlflowException(<<"Could not restore non-existent run ">> \o run_id))

\* the except clauses of an operation and what it does with a response
ClientOutcome(op, run_id, response) ==
    IF response.class \in op.conflicts
    THEN StoreRaised(MlflowException(<<response.class>>))
    ELSE IF response.class = "HttpError"
    THEN StoreRaised(faculty_http_error_to_mlflow_exception(response.error))
    ELSE IF op.fn = "delete_run" THEN delete_run(run_id, response)
    ELSE IF op.fn = "restore_run" THEN restore_run(run_id, response)
    ELSE StoreReturned(Some(<<op.method>>))

\* an operation from its call to its return: the conversions of its
\* arguments, which raise ValueError before any request, the one request
\* and the outcome
ClientRequest ==
    /\ pc = "called"
    /\ \E op \in ClientOperations :
          /\ call.fn = op.fn
          /\ IF op.experiment_id /\ ~IsIntText(call.experiment_id)
             THEN /\ StoreReturn(StoreRaised(Exception("ValueError",
                         <<"invalid literal for int() with base 10: ">> \o call.experiment_id)))
                  /\ UNCHANGED <<requests, local>>
             ELSE IF op.run_id /\ ~call.run_id.isNone /\ ~IsUuidText(call.run_id.items)
             THEN /\ StoreReturn(StoreRaised(Exception("ValueError",
                         <<"badly formed hexadecimal UUID string">>)))
                  /\ UNCHANGED <<requests, local>>
             ELSE \E response \in ClientResponses(op, UuidHex(call.run_id.items)) :
                     /\ requests' = Append(requests,
                            [method |-> op.method,
                             experiment_id |-> IF op.experiment_id
                                               THEN IntOf(call.experiment_id) ELSE 0,
                             run_ids |-> IF op.run_id /\ ~call.run_id.isNone
                                         THEN <<UuidHex(call.run_id.items)>> ELSE <<>>,
                             response |-> response])
                     /\ StoreReturn(ClientOutcome(op, UuidHex(call.run_id.items), response))
                     /\ UNCHANGED local

(***************************************************************************)
(* trackingstore.py: FacultyRestStore.search_runs                          *)
(***************************************************************************)
ListRunsCalls ==
    { [fn |-> "search_runs", experiment_ids |-> e, search_expressions |-> s,
       run_view_type |-> v] :
        e \in { [isNone |-> TRUE, ids |-> <<>>] }
                \cup { [isNone |-> FALSE, ids |-> ids] : ids \in ExperimentIdLists },
        s \in { None, Some(<<"metric.a > 1">>) },
        v \in { None, Some(<<"ACTIVE_ONLY">>) } }

\* trackingstore.py:347-359: the argument checks and list(map(int,
\* experiment_ids)), before the loop
ListRunsStart ==
    /\ call.fn = "search_runs"
    /\ pc = "called"
    /\ UNCHANGED <<requests, local>>
    /\ IF ~call.search_expressions.isNone
       THEN StoreReturn(StoreRaised(Exception("NotImplementedError",
                <<"search_expressions must be set to None">>)))
       ELSE IF ~call.run_view_type.isNone
       THEN StoreReturn(StoreRaised(Exception("NotImplementedError",
                <<"run_view_type must be set to None">>)))
       ELSE IF \E i \in 1..Len(call.experiment_ids.ids) :
                  ~IsIntText(call.experiment_ids.ids[i])
       THEN StoreReturn(StoreRaised(Exception("ValueError",
                <<"invalid literal for int() with base 10">>)))
       ELSE /\ pc' = "list_runs"
            /\ UNCHANGED <<call, result, earlier, _account_cache>>

\* fault: only a response without a next page ends the loop
LastPage_NextOnly(response) == response.pagination.next.isNone

\* trackingstore.py:364-368: the break of the loop
LastPage(response) ==
    response.pagination.next.isNone \/ Len(response.runs) = 0

\* trackingstore.py:360-372: one turn of the loop, with the return after
\* the break; every request has the same arguments
ListRuns ==
    /\ call.fn = "search_runs"
    /\ pc = "list_runs"
    /\ Len(requests) < MaxRequests
    /\ \E response \in Responses(Len(requests) + 1) :
          /\ requests' = Append(requests,
                 [method |-> "list_runs",
                  experiment_ids |-> [isNone |-> call.experiment_ids.isNone,
                                      ids |-> [i \in 1..Len(call.experiment_ids.ids) |->
                                                  IntOf(call.experiment_ids.ids[i])]],
                  response |-> response])
          /\ IF response.raises
             THEN /\ StoreReturn(StoreRaised(
                         faculty_http_error_to_mlflow_exception(response.error)))
                  /\ UNCHANGED local
             ELSE /\ local' = [local EXCEPT !.started = TRUE,
                                            !.faculty_runs = @ \o response.runs]
                  /\ IF LastPage(response)
                     THEN StoreReturn(StoreReturned(
                              [i \in 1..Len(local'.faculty_runs) |->
                                  faculty_run_to_mlflow_run(local'.faculty_runs[i])]))
                     ELSE UNCHANGED <<call, pc, result, earlier, _account_cache>>

(***************************************************************************)
(* The store: one call of any of its operations                            *)
(***************************************************************************)
InitStore ==
    /\ call \in StoreCalls \cup ListRunsCalls \cup SearchRunsCalls
    /\ pc = "called"
    /\ result = NoStoreResult
    /\ earlier = <<>>
    /\ requests = <<>>
    /\ local = NoLocals
    /\ _account_cache = NoAccount

NextStore ==
    \/ ClientRequest
    \/ ListRunsStart
    \/ ListRuns
    \/ SearchRunsBuildFilter
    \/ QueryRuns
    \/ SearchRunsReturn

SpecStore == InitStore /\ [][NextStore]_vars

(***************************************************************************)
(* context.py: FacultyRunContext                                           *)
(***************************************************************************)
FACULTY_ENV_TAGS ==
    << <<"FACULTY_PROJECT_ID", "mlflow.faculty.project.projectId">>,
       <<"FACULTY_SERVER_ID", "mlflow.faculty.server.serverId">>,
       <<"FACULTY_SERVER_NAME", "mlflow.faculty.server.name">>,
       <<"NUM_CPUS", "mlflow.faculty.server.cpus">>,
       <<"AVAILABLE_MEMORY_MB", "mlflow.faculty.server.memoryMb">>,
       <<"NUM_GPUS", "mlflow.faculty.server.gpus">>,
       <<"FACULTY_JOB_ID", "mlflow.faculty.job.jobId">>,
       <<"FACULTY_JOB_NAME", "mlflow.faculty.job.name">>,
       <<"FACULTY_RUN_ID", "mlflow.faculty.job.runId">>,
       <<"FACULTY_RUN_NUMBER", "mlflow.faculty.job.runNumber">>,
       <<"FACULTY_SUBRUN_ID", "mlflow.faculty.job.subrunId">>,
       <<"FACULTY_SUBRUN_NUMBER", "mlflow.faculty.job.subrunNumber">>,
       <<"FACULTY_APP_ID", "mlflow.faculty.app.appId">>,
       <<"FACULTY_API_ID", "mlflow.faculty.api.apiId">> >>

USER_ID_TAG == "mlflow.faculty.user.userId"
USERNAME_TAG == "mlflow.faculty.user.username"
CREATED_BY_TAG == "mlflow.faculty.createdBy"
API_MODE_TAG == "mlflow.faculty.api.mode"

\* a dict is a function from its keys; {} is the function of no key
EmptyDict == [key \in {} |-> <<>>]

\* str(uuid) of a UUID, which is its hex text
StrOfUuid(hex) ==
    SubSeq(hex, 1, 8) \o <<"-">> \o SubSeq(hex, 9, 12) \o <<"-">> \o SubSeq(hex, 13, 16)
    \o <<"-">> \o SubSeq(hex, 17, 20) \o <<"-">> \o SubSeq(hex, 21, 32)

_tags_from_account(account) ==
    (USER_ID_TAG :> StrOfUuid(account.user_id)) @@ (USERNAME_TAG :> account.username)

\* re.search of the pattern "first.*second" ("first" alone when second is
\* empty): first occurs, second occurs after it, and no newline lies between
re_search(first, second, string) ==
    \E i \in 1..(Len(string) - Len(first) + 1) :
        /\ SubSeq(string, i, i + Len(first) - 1) = first
        /\ \E j \in (i + Len(first))..(Len(string) - Len(second) + 1) :
              /\ SubSeq(string, j, j + Len(second) - 1) = second
              /\ \A k \in (i + Len(first))..(j - 1) : string[k] # "\n"

\* fault: the api rules are tried before the job and app rules
_tags_from_server_type_ApiFirst(server_type) ==
    IF server_type.isNone THEN CREATED_BY_TAG :> <<"u","s","e","r">>
    ELSE IF re_search(<<"p","r","o","d">>, <<"a","p","i">>, server_type.items)
    THEN (CREATED_BY_TAG :> <<"a","p","i">>) @@ (API_MODE_TAG :> <<"d","e","p","l","o","y">>)
    ELSE IF re_search(<<"d","e","v">>, <<"a","p","i">>, server_type.items)
    THEN (CREATED_BY_TAG :> <<"a","p","i">>) @@ (API_MODE_TAG :> <<"t","e","s","t">>)
    ELSE IF re_search(<<"j","o","b">>, <<>>, server_type.items) THEN CREATED_BY_TAG :> <<"j","o","b">>
    ELSE IF re_search(<<"a","p","p">>, <<>>, server_type.items) THEN CREATED_BY_TAG :> <<"a","p","p">>
    ELSE CREATED_BY_TAG :> <<"u","s","e","r">>

_tags_from_server_type(server_type) ==
    IF server_type.isNone THEN CREATED_BY_TAG :> <<"u","s","e","r">>
    ELSE IF re_search(<<"j","o","b">>, <<>>, server_type.items) THEN CREATED_BY_TAG :> <<"j","o","b">>
    ELSE IF re_search(<<"a","p","p">>, <<>>, server_type.items) THEN CREATED_BY_TAG :> <<"a","p","p">>
    ELSE IF re_search(<<"p","r","o","d">>, <<"a","p","i">>, server_type.items)
    THEN (CREATED_BY_TAG :> <<"a","p","i">>) @@ (API_MODE_TAG :> <<"d","e","p","l","o","y">>)
    ELSE IF re_search(<<"d","e","v">>, <<"a","p","i">>, server_type.items)
    THEN (CREATED_BY_TAG :> <<"a","p","i">>) @@ (API_MODE_TAG :> <<"t","e","s","t">>)
    ELSE CREATED_BY_TAG :> <<"u","s","e","r">>

\* fault: the account is not kept
_get_account_NotCached(cache, response) ==
    [asked |-> TRUE, raised |-> response.raises, account |-> response.account,
     cache |-> NoAccount]

\* context.py:69-73: the client is asked when the cache is None, and what it
\* returns is cached; response is what the client does when asked
_get_account(cache, response) ==
    IF cache.isNone
    THEN [asked |-> TRUE, raised |-> response.raises, account |-> response.account,
          cache |-> IF response.raises THEN cache ELSE response.account]
    ELSE [asked |-> FALSE, raised |-> FALSE, account |-> cache, cache |-> cache]

\* os.environ.get(variable)
environ_get(environ, variable) ==
    IF variable \in DOMAIN environ THEN Some(environ[variable]) ELSE None

\* context.py:78-96: got is what self._get_account() did; dict.update puts
\* the later tags over the earlier ones
tags(environ, got) ==
    LET set == { i \in 1..Len(FACULTY_ENV_TAGS) :
                   /\ ~environ_get(environ, FACULTY_ENV_TAGS[i][1]).isNone
                   /\ environ_get(environ, FACULTY_ENV_TAGS[i][1]).items # <<>> }
        last(tag_name) == CHOOSE i \in set :
                              /\ FACULTY_ENV_TAGS[i][2] = tag_name
                              /\ \A j \in set : FACULTY_ENV_TAGS[j][2] = tag_name => j <= i
        from_environment ==
            [tag_name \in { FACULTY_ENV_TAGS[i][2] : i \in set } |->
                environ[FACULTY_ENV_TAGS[last(tag_name)][1]]]
        from_server_type ==
            _tags_from_server_type(environ_get(environ, "FACULTY_SERVER_TYPE"))
    IN  IF got.raised THEN StoreReturned(from_server_type @@ from_environment)
        ELSE StoreReturned(_tags_from_account(got.account) @@ from_server_type
                           @@ from_environment)

\* FACULTY_SERVER_TYPE and FACULTY_PROJECT_ID, each unset, empty or set
Environments ==
    LET server_types ==
            { <<>>, <<"j","u","p","y","t","e","r">>, <<"p","y","t","h","o","n","-","j","o","b">>, <<"a","p","p">>, <<"p","r","o","d","-","p","y","t","h","o","n","-","a","p","i">>,
              <<"d","e","v","-","p","y","t","h","o","n","-","a","p","i">>, <<"a","p","i">>, <<"a","p","i","-","p","r","o","d">>, <<"p","r","o","d","-","j","o","b","-","a","p","i">>,
              <<"d","e","v","-","a","p","p","-","a","p","i">>, <<"d","e","v","-","p","r","o","d","-","a","p","i">>, <<"p","r","o","d","\n","a","p","i">> }
        with_type == { EmptyDict } \cup { "FACULTY_SERVER_TYPE" :> t : t \in server_types }
        with_project == { EmptyDict, "FACULTY_PROJECT_ID" :> <<>>,
                          "FACULTY_PROJECT_ID" :> <<"p","r","o","j","e","c","t","-","i","d">> }
    IN  { e @@ p : e \in with_type, p \in with_project }

\* what faculty.client("account").authenticated_account() does: it raises,
\* or returns one of two accounts
AccountResponses ==
    { [raises |-> TRUE, account |-> NoAccount],
      [raises |-> FALSE,
       account |-> [isNone |-> FALSE, user_id |-> UuidHex(AUuid), username |-> <<"j","o","e","_","b","l","o","g","g","s">>]],
      [raises |-> FALSE,
       account |-> [isNone |-> FALSE, user_id |-> <<"0","0","0","0","0","0","0","0","0","0","0","0","0","0","0","0","0","0","0","0","0","0","0","0","0","0","0","0","0","0","0","1">>,
                    username |-> <<"a","n","n">>]] }

\* FacultyRunContext() in a process with some environment: no call of
\* tags() yet
InitContext ==
    /\ call \in { [fn |-> "FacultyRunContext", environ |-> e] : e \in Environments }
    /\ pc = "made"
    /\ result = NoStoreResult
    /\ earlier = <<>>
    /\ requests = <<>>
    /\ local = NoLocals
    /\ _account_cache = NoAccount

\* one call of tags() on the context; earlier keeps the results of the
\* calls before it
Tags ==
    /\ Len(earlier) < MaxCalls
    /\ \E response \in AccountResponses :
          \E got \in { _get_account(_account_cache, response) } :
              /\ call' = [call EXCEPT !.fn = "tags"]
              /\ pc' = "done"
              /\ result' = tags(call.environ, got)
              /\ earlier' = IF pc = "done"
                            THEN Append(earlier, [result |-> result])
                            ELSE earlier
              /\ _account_cache' = got.cache
              /\ requests' = IF got.asked
                             THEN Append(requests,
                                      [method |-> "authenticated_account",
                                       call |-> Len(earlier') + 1, response |-> response])
                             ELSE requests
              /\ UNCHANGED local

NextContext == Tags

SpecContext == InitContext /\ [][NextContext]_vars

(***************************************************************************)
(* Reading a finished call                                                 *)
(***************************************************************************)
Done == pc = "done"

\* a finished _parse_filter_string call on a string that is one statement
ParsedOneStatement ==
    /\ Done
    /\ call.fn = "_parse_filter_string"
    /\ ~call.filter_string.raises
    /\ Len(call.filter_string.parsed) = 1
    /\ call.filter_string.parsed[1].cls = "Statement"

StatementTokens == call.filter_string.parsed[1].tokens

\* "AND" or "OR" for a logical keyword token of either letter case, else ""
LogicalOf(token) ==
    IF token.ttype = <<"Keyword">> /\ upper(token.value) = <<"A","N","D">> THEN "AND"
    ELSE IF token.ttype = <<"Keyword">> /\ upper(token.value) = <<"O","R">> THEN "OR"
    ELSE ""

\* the logical keywords of a token list in source order
RECURSIVE LogicalsOf(_)
LogicalsOf(tokens) ==
    IF Len(tokens) = 0 THEN <<>>
    ELSE IF LogicalOf(Head(tokens)) # "" THEN <<LogicalOf(Head(tokens))>> \o LogicalsOf(Tail(tokens))
    ELSE LogicalsOf(Tail(tokens))

\* the operands of a token list in source order: what stands between its
\* logical keywords
RECURSIVE OperandsOf(_, _)
OperandsOf(tokens, current) ==
    IF Len(tokens) = 0 THEN <<current>>
    ELSE IF LogicalOf(Head(tokens)) # "" THEN <<current>> \o OperandsOf(Tail(tokens), <<>>)
    ELSE OperandsOf(Tail(tokens), Append(current, Head(tokens)))

\* a valid leaf expression: no parenthesis, and it parses to a filter
IsValidLeaf(tokens) ==
    /\ \A i \in 1..Len(tokens) : tokens[i].cls # "Parenthesis"
    /\ LogicalsOf(tokens) = <<>>
    /\ _parse_token_list(tokens).status = "returned"

FilterOf(tokens) == _parse_token_list(tokens).filter

(***************************************************************************)
(* C1: AND binds tighter than OR.  For valid leaf expressions A, B, C the  *)
(* string "A AND B OR C" parses to OR[AND[A, B], C] and "A OR B AND C" to  *)
(* OR[A, AND[B, C]].                                                       *)
(***************************************************************************)
C1_Precedence ==
    ParsedOneStatement =>
        LET ops == LogicalsOf(StatementTokens)
            x == OperandsOf(StatementTokens, <<>>)
        IN  (Len(x) = 3 /\ \A i \in 1..3 : IsValidLeaf(x[i])) =>
              /\ ops = <<"AND", "OR">> =>
                    result = Returned(CompoundFilter("OR",
                        <<CompoundFilter("AND", <<FilterOf(x[1]), FilterOf(x[2])>>),
                          FilterOf(x[3])>>))
              /\ ops = <<"OR", "AND">> =>
                    result = Returned(CompoundFilter("OR",
                        <<FilterOf(x[1]),
                          CompoundFilter("AND", <<FilterOf(x[2]), FilterOf(x[3])>>)>>))

C1_Witness ==
    /\ ParsedOneStatement
    /\ LogicalsOf(StatementTokens) = <<"OR", "AND">>
    /\ \A i \in 1..3 : IsValidLeaf(OperandsOf(StatementTokens, <<>>)[i])
    /\ result.status = "returned"
    /\ result.filter.operator = "OR"
    /\ result.filter.conditions[2].operator = "AND"

(***************************************************************************)
(* C2: parentheses are transparent.  A string that is a valid expression   *)
(* wrapped in parentheses, any number of times and with any whitespace     *)
(* around or inside them, parses to the filter of the expression.          *)
(***************************************************************************)
NonBlank(tokens) == SelectSeq(tokens, LAMBDA t : t.ttype # <<"Text", "Whitespace">>)

IsWrapped(tokens) == Len(NonBlank(tokens)) = 1 /\ NonBlank(tokens)[1].cls = "Parenthesis"

\* the token list inside the outermost parentheses
Interior(tokens) ==
    LET inner == NonBlank(tokens)[1].tokens IN SubSeq(inner, 2, Len(inner) - 1)

\* the expression left when every wrapping parenthesis is removed
RECURSIVE Unwrapped(_)
Unwrapped(tokens) == IF IsWrapped(tokens) THEN Unwrapped(Interior(tokens)) ELSE tokens

RECURSIVE WrapDepth(_)
WrapDepth(tokens) == IF IsWrapped(tokens) THEN 1 + WrapDepth(Interior(tokens)) ELSE 0

C2_ParenthesisTransparency ==
    (ParsedOneStatement /\ IsWrapped(StatementTokens)) =>
        /\ _parse_token_list(Interior(StatementTokens)).status = "returned"
              => result = _parse_token_list(Interior(StatementTokens))
        /\ _parse_token_list(Unwrapped(StatementTokens)).status = "returned"
              => result = _parse_token_list(Unwrapped(StatementTokens))

C2_Witness ==
    /\ ParsedOneStatement
    /\ WrapDepth(StatementTokens) >= 2
    /\ Len(StatementTokens) > 1
    /\ Len(LogicalsOf(Unwrapped(StatementTokens))) >= 1
    /\ result.status = "returned"
    /\ result.filter.node = "CompoundFilter"

(***************************************************************************)
(* C3: every CompoundFilter returned by _parse_filter_string,              *)
(* _filter_by_experiment_id or build_search_runs_filter, at any depth, has *)
(* at least two children.                                                  *)
(***************************************************************************)
RECURSIVE AtLeastTwoChildren(_)
AtLeastTwoChildren(filter) ==
    filter.node = "CompoundFilter" =>
        /\ Len(filter.conditions) >= 2
        /\ \A i \in 1..Len(filter.conditions) : AtLeastTwoChildren(filter.conditions[i])

C3_CompoundHasTwoChildren ==
    (/\ Done
     /\ call.fn \in {"_parse_filter_string", "_filter_by_experiment_id",
                     "build_search_runs_filter"}
     /\ result.status = "returned")
        => AtLeastTwoChildren(result.filter)

C3_Witness ==
    /\ Done
    /\ call.fn = "build_search_runs_filter"
    /\ Len(call.experiment_ids.ids) = 1
    /\ result.status = "returned"
    /\ result.filter.node = "CompoundFilter"
    /\ Len(result.filter.conditions) = 3
    /\ result.filter.conditions[1].node = "ExperimentIdFilter"

(***************************************************************************)
(* C4: a chain of n >= 2 operands joined by the same logical operator      *)
(* parses to one CompoundFilter of exactly n children, the i-th child      *)
(* being the filter of the i-th operand.                                   *)
(***************************************************************************)
C4_ChainIsFlattened ==
    ParsedOneStatement =>
        LET ops == LogicalsOf(StatementTokens)
            x == OperandsOf(StatementTokens, <<>>)
        IN  (/\ Len(ops) >= 1
             /\ \A i \in 1..Len(ops) : ops[i] = ops[1]
             /\ \A i \in 1..Len(x) : _parse_token_list(x[i]).status = "returned")
                => result = Returned(CompoundFilter(ops[1],
                                [i \in 1..Len(x) |-> FilterOf(x[i])]))

C4_Witness ==
    /\ ParsedOneStatement
    /\ LogicalsOf(StatementTokens) = <<"AND", "AND">>
    /\ result.status = "returned"
    /\ Len(result.filter.conditions) = 3
    /\ result.filter.conditions[1] # result.filter.conditions[2]

(***************************************************************************)
(* Reading a finished _single_filter_from_tokens call                      *)
(***************************************************************************)
LeafCall == Done /\ call.fn = "_single_filter_from_tokens"

IdentifierToken == call.tokens[1]
OperatorToken == call.tokens[2]
ValueToken == call.tokens[3]

OrderingOperators ==
    {"GREATER_THAN", "GREATER_THAN_OR_EQUAL_TO", "LESS_THAN", "LESS_THAN_OR_EQUAL_TO"}

\* the text before the first dot, and the text after it
RECURSIVE BeforeDot(_)
BeforeDot(s) ==
    IF Len(s) = 0 \/ Head(s) = "." THEN <<>> ELSE <<Head(s)>> \o BeforeDot(Tail(s))

HasDot(s) == Len(BeforeDot(s)) < Len(s)

AfterDot(s) == SubSeq(s, Len(BeforeDot(s)) + 2, Len(s))

\* text is wrapped in one of the quote characters
QuotedBy(text, quoteChars) ==
    Len(text) >= 2 /\ text[1] = text[Len(text)] /\ text[1] \in quoteChars

\* text without one layer of the quote characters, if it is wrapped in one
StripOne(text, quoteChars) ==
    IF QuotedBy(text, quoteChars) THEN SubSeq(text, 2, Len(text) - 1) ELSE text

(***************************************************************************)
(* C5: once identifier, operator and value are resolved, an ordering       *)
(* operator is accepted iff the key type is METRIC, or PARAM with a        *)
(* numeric value; otherwise it fails with UnsupportedOperator.  DEFINED,   *)
(* EQUAL_TO and NOT_EQUAL_TO are always accepted.                          *)
(***************************************************************************)
C5_OrderingOperators ==
    LeafCall =>
        LET i == _parse_identifier(IdentifierToken)
            o == _parse_operator(OperatorToken)
            v == _parse_value(i.key_type, o.operator, ValueToken)
            allowed == \/ i.key_type = "METRIC"
                       \/ i.key_type = "PARAM" /\ v.value.type \in {"int", "float"}
        IN  (i.ok /\ o.ok /\ v.ok) =>
              IF o.operator \in OrderingOperators
              THEN IF allowed
                   THEN result.status = "returned" /\ result.filter.operator = o.operator
                   ELSE /\ i.key_type \in {"RUN_ID", "STATUS", "TAG", "PARAM"}
                        /\ result.status = "raised"
                        /\ result.error.kind = "UnsupportedOperator"
              ELSE /\ o.operator \in {"DEFINED", "EQUAL_TO", "NOT_EQUAL_TO"}
                   /\ result.status = "returned"
                   /\ result.filter.operator = o.operator

C5_Witness ==
    /\ LeafCall
    /\ _parse_identifier(IdentifierToken).key_type = "PARAM"
    /\ _parse_operator(OperatorToken).operator = "LESS_THAN"
    /\ _parse_value("PARAM", "LESS_THAN", ValueToken).ok
    /\ _parse_value("PARAM", "LESS_THAN", ValueToken).value.type = "str"
    /\ result.error.kind = "UnsupportedOperator"

(***************************************************************************)
(* C6: with the operator token IS, for every key type, the operator is     *)
(* DEFINED and the value comes from the value token alone: NULL gives      *)
(* False, NOT NULL (any case, one or more spaces) gives True, anything     *)
(* else fails with InvalidValue expecting NULL or NOT NULL.                *)
(***************************************************************************)
IsNullKeyword(token) == token.ttype = <<"Keyword">> /\ upper(token.value) = <<"N","U","L","L">>

IsNotNullKeyword(token) ==
    LET text == upper(token.value)
    IN  /\ token.ttype = <<"Keyword">>
        /\ Len(text) >= 8
        /\ SubSeq(text, 1, 3) = <<"N","O","T">>
        /\ SubSeq(text, Len(text) - 3, Len(text)) = <<"N","U","L","L">>
        /\ \A k \in 4..(Len(text) - 4) : text[k] = " "

C6_IsNullValue ==
    (/\ LeafCall
     /\ OperatorToken.ttype = <<"Keyword">>
     /\ upper(OperatorToken.value) = <<"I","S">>
     /\ _parse_identifier(IdentifierToken).ok)
        => IF IsNullKeyword(ValueToken)
           THEN /\ result.status = "returned"
                /\ result.filter.operator = "DEFINED"
                /\ result.filter.value = BoolValue(FALSE)
           ELSE IF IsNotNullKeyword(ValueToken)
           THEN /\ result.status = "returned"
                /\ result.filter.operator = "DEFINED"
                /\ result.filter.value = BoolValue(TRUE)
           ELSE result = Raised(INVALID_VALUE("NULL or NOT NULL", ValueToken.value))

C6_Witness ==
    /\ LeafCall
    /\ OperatorToken.value = <<"i","s">>
    /\ ValueToken.value = <<"N","o","t"," "," "," ","N","u","l","l">>
    /\ result.status = "returned"
    /\ result.filter.node = "RunIdFilter"
    /\ result.filter.value = BoolValue(TRUE)

(***************************************************************************)
(* C7: identifier resolution.  The identifier is split at its first dot    *)
(* into prefix and key and the prefix is matched case-sensitively against  *)
(* the alias sets; an attribute prefix needs the key id, run_id or status; *)
(* anything else fails with InvalidIdentifier naming the raw identifier.   *)
(***************************************************************************)
\* the key type the claim gives an identifier token whose key text, as the
\* attribute aliases are matched, is key; "" stands for InvalidIdentifier
ClaimedKeyType(token, key) ==
    IF token.cls # "Identifier" \/ ~HasDot(token.value) THEN ""
    ELSE IF BeforeDot(token.value) \in ATTRIBUTE_IDENTIFIERS
    THEN IF key \in {<<"i","d">>, <<"r","u","n","_","i","d">>} THEN "RUN_ID"
         ELSE IF key = <<"s","t","a","t","u","s">> THEN "STATUS"
         ELSE ""
    ELSE IF BeforeDot(token.value) \in PARAM_IDENTIFIERS THEN "PARAM"
    ELSE IF BeforeDot(token.value) \in METRIC_IDENTIFIERS THEN "METRIC"
    ELSE IF BeforeDot(token.value) \in TAG_IDENTIFIERS THEN "TAG"
    ELSE ""

NodeOf(key_type) ==
    CASE key_type = "RUN_ID" -> "RunIdFilter"
      [] key_type = "STATUS" -> "RunStatusFilter"
      [] key_type = "PARAM"  -> "ParamFilter"
      [] key_type = "METRIC" -> "MetricFilter"
      [] key_type = "TAG"    -> "TagFilter"
      [] OTHER               -> ""

\* the outcome of the leaf shows the key type claimed
ShowsKeyType(key_type) ==
    IF key_type = ""
    THEN result = Raised(INVALID_IDENTIFIER(IdentifierToken.value))
    ELSE /\ result.error.kind # "InvalidIdentifier"
         /\ result.status = "returned" => result.filter.node = NodeOf(key_type)
         /\ result.error.kind = "UnsupportedOperator" /\ key_type # "PARAM"
               => result.error.expected = key_type

\* C7 as stated: the attribute key is the text after the first dot as written
C7_Original_KeyAsWritten ==
    LeafCall => ShowsKeyType(ClaimedKeyType(IdentifierToken, AfterDot(IdentifierToken.value)))

\* C7 amended: the attribute key is compared after one layer of surrounding
\* double quotes or backticks is removed from the text after the first dot
C7_IdentifierResolution ==
    LeafCall =>
        ShowsKeyType(ClaimedKeyType(IdentifierToken,
            StripOne(AfterDot(IdentifierToken.value), {"\"", BACKTICK})))

C7_Witness ==
    /\ LeafCall
    /\ IdentifierToken.value = <<"a","t","t","r",".","\"","i","d","\"">>
    /\ result.status = "returned"
    /\ result.filter.node = "RunIdFilter"

(***************************************************************************)
(* C8: for param, metric and tag identifiers the filter key is the key     *)
(* part with exactly one layer of surrounding quotes removed.              *)
(***************************************************************************)
KeyedLeafReturned ==
    /\ LeafCall
    /\ result.status = "returned"
    /\ result.filter.node \in {"ParamFilter", "MetricFilter", "TagFilter"}

\* C8 as stated: double quotes, single quotes and backticks are removed
C8_Original_ThreeQuoteStyles ==
    KeyedLeafReturned =>
        result.filter.key = StripOne(AfterDot(IdentifierToken.value), {"\"", "'", BACKTICK})

\* C8 amended: double quotes and backticks are removed; a key part wrapped in
\* single quotes is kept as written, quotes included
C8_KeyQuotes ==
    KeyedLeafReturned =>
        result.filter.key = StripOne(AfterDot(IdentifierToken.value), {"\"", BACKTICK})

C8_Witness ==
    /\ KeyedLeafReturned
    /\ AfterDot(IdentifierToken.value) = <<"'","a","'">>
    /\ result.filter.key = <<"'","a","'">>

(***************************************************************************)
(* C9: quote characters of string values.                                  *)
(***************************************************************************)
\* a leaf on a tag or param with = or != whose value token is a string
\* token (String.Single or Identifier) wrapped in one of the quote characters
StringValueIn(quoteChars) ==
    /\ LeafCall
    /\ _parse_identifier(IdentifierToken).ok
    /\ _parse_identifier(IdentifierToken).key_type \in {"TAG", "PARAM"}
    /\ OperatorToken.ttype = <<"Operator", "Comparison">>
    /\ OperatorToken.value \in {<<"=">>, <<"!","=">>}
    /\ ValueToken.ttype = <<"Literal", "String", "Single">> \/ ValueToken.cls = "Identifier"
    /\ QuotedBy(ValueToken.value, quoteChars)

YieldsContent ==
    /\ result.status = "returned"
    /\ result.filter.value =
           StrValue(SubSeq(ValueToken.value, 2, Len(ValueToken.value) - 1))

\* C9 as stated: a value wrapped in double quotes, single quotes or
\* backticks is accepted and yields the content between the quotes
C9_Original_ThreeQuoteStyles ==
    StringValueIn({"\"", "'", BACKTICK}) => YieldsContent

\* C9 amended: a value wrapped in double quotes or single quotes is accepted
\* and yields the content between the quotes; a value wrapped in backticks
\* fails with InvalidValue
C9_ValueQuotes ==
    /\ StringValueIn({"\"", "'"}) => YieldsContent
    /\ StringValueIn({BACKTICK}) =>
          result.status = "raised" /\ result.error.kind = "InvalidValue"

C9_Witness ==
    /\ StringValueIn({BACKTICK})
    /\ _parse_identifier(IdentifierToken).key_type = "TAG"
    /\ result.error.kind = "InvalidValue"
    /\ result.error.text = ValueToken.value

(***************************************************************************)
(* C10: where a string value is required (RUN_ID, STATUS, TAG, and PARAM   *)
(* when the token is no number) with an operator other than IS, the value  *)
(* is accepted only when its text has length >= 2 and starts and ends with *)
(* the same single or double quote; every other text fails with            *)
(* InvalidValue.                                                           *)
(***************************************************************************)
StringRequired ==
    LET i == _parse_identifier(IdentifierToken)
        o == _parse_operator(OperatorToken)
        isNumber == Len(ValueToken.ttype) >= 2
                    /\ SubSeq(ValueToken.ttype, 1, 2) = <<"Literal", "Number">>
    IN  /\ LeafCall
        /\ i.ok
        /\ o.ok
        /\ o.operator # "DEFINED"
        /\ \/ i.key_type \in {"RUN_ID", "STATUS", "TAG"}
           \/ i.key_type = "PARAM" /\ ~isNumber

C10_StringValueNeedsQuotes ==
    StringRequired =>
        /\ result.status = "returned" => QuotedBy(ValueToken.value, {"'", "\""})
        /\ ~QuotedBy(ValueToken.value, {"'", "\""}) =>
              result.status = "raised" /\ result.error.kind = "InvalidValue"

C10_Witness ==
    /\ StringRequired
    /\ ValueToken.value = <<"\"","v","\"",".","'","w","'">>
    /\ _parse_identifier(IdentifierToken).key_type = "PARAM"
    /\ result.error.kind = "InvalidValue"
    /\ result.error.expected = "a number or quoted string"

(***************************************************************************)
(* Reading the value of a leaf                                             *)
(***************************************************************************)
\* the key type of the leaf, "" when the identifier is invalid
KeyTypeOfLeaf == _parse_identifier(IdentifierToken).key_type

\* the operator of the leaf, "" when the operator token is invalid
OperatorOfLeaf == _parse_operator(OperatorToken).operator

\* a finished leaf of the key type whose operator is valid and is not IS
ValuedLeaf(key_type) ==
    /\ LeafCall
    /\ _parse_identifier(IdentifierToken).ok
    /\ KeyTypeOfLeaf = key_type
    /\ _parse_operator(OperatorToken).ok
    /\ OperatorOfLeaf # "DEFINED"

\* the value token is a string token wrapped in single or double quotes
IsQuotedString(token) ==
    /\ token.ttype = <<"Literal", "String", "Single">> \/ token.cls = "Identifier"
    /\ QuotedBy(token.value, {"'", "\""})

ContentOf(token) == SubSeq(token.value, 2, Len(token.value) - 1)

RaisedInvalidValue == result.status = "raised" /\ result.error.kind = "InvalidValue"

\* the leaf returned its filter with the value, or, the value being accepted,
\* was refused for its operator alone
AcceptedValue(value) ==
    IF result.status = "returned" THEN result.filter.value = value
    ELSE result.error.kind = "UnsupportedOperator"

(***************************************************************************)
(* C11: for key type STATUS with an operator other than IS the value must  *)
(* be a quoted string whose content, lower-cased, is one of running,       *)
(* finished, failed, scheduled, killed; the value of the filter is that    *)
(* run status whatever the letter case written; any other content fails    *)
(* with InvalidValue naming the valid set.                                 *)
(***************************************************************************)
\* the run statuses whose name is the text up to letter case
StatusesNamed(text) == { m \in ExperimentRunStatus : upper(m) = upper(text) }

C11_StatusValue ==
    ValuedLeaf("STATUS") =>
        IF IsQuotedString(ValueToken)
        THEN IF StatusesNamed(ContentOf(ValueToken)) # {}
             THEN /\ \E m \in StatusesNamed(ContentOf(ValueToken)) :
                        AcceptedValue(StatusValue(m))
                  /\ OperatorOfLeaf \in {"EQUAL_TO", "NOT_EQUAL_TO"}
                        => /\ result.status = "returned"
                           /\ result.filter.node = "RunStatusFilter"
             ELSE result = Raised(INVALID_VALUE("a run status (one of)",
                                                ContentOf(ValueToken)))
        ELSE RaisedInvalidValue

C11_Witness ==
    /\ ValuedLeaf("STATUS")
    /\ ValueToken.value = <<"'","K","i","l","l","e","d","'">>
    /\ OperatorOfLeaf = "NOT_EQUAL_TO"
    /\ result.status = "returned"
    /\ result.filter.value = StatusValue(<<"k","i","l","l","e","d">>)

(***************************************************************************)
(* C12: for key type PARAM with an operator other than IS an integer token *)
(* gives an integer value, a float token gives a float value, otherwise a  *)
(* quoted string gives its content, and a token that is neither fails with *)
(* InvalidValue expecting a number or quoted string; integer or float is   *)
(* decided by the sub-type of the token.                                   *)
(***************************************************************************)
C12_ParamValue ==
    ValuedLeaf("PARAM") =>
        IF ValueToken.ttype = <<"Literal", "Number", "Integer">>
        THEN /\ result.status = "returned"
             /\ result.filter.value.type = "int"
             /\ result.filter.value = IntValue(IntOf(ValueToken.value))
        ELSE IF ValueToken.ttype = <<"Literal", "Number", "Float">>
        THEN /\ result.status = "returned"
             /\ result.filter.value.type = "float"
             /\ result.filter.value = FloatValue(FloatOf(ValueToken.value))
        ELSE IF IsQuotedString(ValueToken)
        THEN AcceptedValue(StrValue(ContentOf(ValueToken)))
        ELSE result = Raised(INVALID_VALUE("a number or quoted string", ValueToken.value))

C12_Witness ==
    /\ ValuedLeaf("PARAM")
    /\ ValueToken = Tok(NumberFloat, <<"2",".","0">>)
    /\ OperatorOfLeaf = "GREATER_THAN"
    /\ result.status = "returned"
    /\ result.filter.value.type = "float"
    /\ result.filter.value # IntValue(2)

(***************************************************************************)
(* C13: with an operator other than IS a METRIC leaf accepts only a number *)
(* token and a TAG leaf accepts only a quoted-string token: a quoted       *)
(* string on a metric and a number on a tag fail with InvalidValue, for    *)
(* every comparison operator.                                              *)
(***************************************************************************)
IsNumberToken(token) ==
    Len(token.ttype) >= 2 /\ SubSeq(token.ttype, 1, 2) = <<"Literal", "Number">>

C13_MetricAndTagValues ==
    /\ ValuedLeaf("METRIC") =>
          /\ result.status = "returned" => IsNumberToken(ValueToken)
          /\ ~IsNumberToken(ValueToken) =>
                result = Raised(INVALID_VALUE("a number", ValueToken.value))
    /\ ValuedLeaf("TAG") =>
          /\ result.status = "returned" => IsQuotedString(ValueToken)
          /\ IsNumberToken(ValueToken) =>
                result = Raised(INVALID_VALUE("a quoted string (e.g. 'my-value')",
                                              ValueToken.value))

C13_Witness ==
    /\ ValuedLeaf("METRIC")
    /\ OperatorOfLeaf = "LESS_THAN_OR_EQUAL_TO"
    /\ ValueToken.value = <<"\"","v","\"">>
    /\ result = Raised(INVALID_VALUE("a number", ValueToken.value))

(***************************************************************************)
(* C14: for key type RUN_ID with = or != the value must be a quoted string *)
(* whose content parses as a UUID; the RunIdFilter carries the UUID        *)
(* written, the same for either quote style; content that is no UUID fails *)
(* with InvalidValue.                                                      *)
(***************************************************************************)
\* the digits of a UUID as written, hyphens left out
WrittenDigits(text) == SelectSeq(text, LAMBDA c : c # "-")

\* text is 32 hexadecimal digits of either case, with or without hyphens
IsWrittenUuid(text) ==
    /\ Len(WrittenDigits(text)) = 32
    /\ \A i \in 1..32 :
          \E k \in 1..16 : upper(WrittenDigits(text))[i] = upper(HexDigits)[k]

C14_RunIdValue ==
    (ValuedLeaf("RUN_ID") /\ OperatorOfLeaf \in {"EQUAL_TO", "NOT_EQUAL_TO"}) =>
        IF IsQuotedString(ValueToken)
        THEN IF IsWrittenUuid(ContentOf(ValueToken))
             THEN /\ result.status = "returned"
                  /\ result.filter.node = "RunIdFilter"
                  /\ result.filter.value.type = "UUID"
                  /\ upper(result.filter.value.s) = upper(WrittenDigits(ContentOf(ValueToken)))
                  /\ result.filter.value.s = lower(result.filter.value.s)
             ELSE result = Raised(INVALID_VALUE("a UUID", ContentOf(ValueToken)))
        ELSE RaisedInvalidValue

C14_Witness ==
    /\ ValuedLeaf("RUN_ID")
    /\ OperatorOfLeaf = "EQUAL_TO"
    /\ ValueToken.value = <<"\"">> \o upper(AUuid) \o <<"\"">>
    /\ result.status = "returned"
    /\ result.filter.value = UuidValue(WrittenDigits(AUuid))

(***************************************************************************)
(* C15: operator resolution.  The keyword IS gives DEFINED; a comparison   *)
(* token gives EQUAL_TO for =, NOT_EQUAL_TO for !=, GREATER_THAN for >,    *)
(* GREATER_THAN_OR_EQUAL_TO for >=, LESS_THAN for <, LESS_THAN_OR_EQUAL_TO *)
(* for <=; every other operator token fails with InvalidOperator.          *)
(***************************************************************************)
\* the operator the table gives an operator token, "" for no operator
ClaimedOperator(token) ==
    IF token.ttype = <<"Keyword">>
    THEN IF upper(token.value) = <<"I","S">> THEN "DEFINED" ELSE ""
    ELSE IF token.ttype # <<"Operator", "Comparison">> THEN ""
    ELSE CASE token.value = <<"=">>  -> "EQUAL_TO"
           [] token.value = <<"!","=">> -> "NOT_EQUAL_TO"
           [] token.value = <<">">>  -> "GREATER_THAN"
           [] token.value = <<">","=">> -> "GREATER_THAN_OR_EQUAL_TO"
           [] token.value = <<"<">>  -> "LESS_THAN"
           [] token.value = <<"<","=">> -> "LESS_THAN_OR_EQUAL_TO"
           [] OTHER -> ""

C15_OperatorResolution ==
    (LeafCall /\ _parse_identifier(IdentifierToken).ok) =>
        IF ClaimedOperator(OperatorToken) = ""
        THEN result = Raised(INVALID_OPERATOR(OperatorToken.value))
        ELSE /\ result.error.kind # "InvalidOperator"
             /\ result.status = "returned"
                   => result.filter.operator = ClaimedOperator(OperatorToken)

C15_Witness ==
    /\ LeafCall
    /\ _parse_identifier(IdentifierToken).ok
    /\ OperatorToken = Tok(Comparison, <<"<",">">>)
    /\ IsQuotedString(ValueToken)
    /\ result = Raised(INVALID_OPERATOR(<<"<",">">>))

(***************************************************************************)
(* C16: after whitespace tokens are removed, a token list with no AND or   *)
(* OR keyword fails with UnsupportedComponent unless it has exactly three  *)
(* tokens, or exactly one token that is a parenthesis group or a           *)
(* comparison group; an empty segment, as a leading, trailing or doubled   *)
(* AND/OR or empty parentheses give, is an error and is never dropped.     *)
(***************************************************************************)
\* the token lists without AND or OR that parsing a token list comes to, at
\* any depth, whitespace removed
RECURSIVE PlainSegments(_)
PlainSegments(tokens) ==
    LET nb == NonBlank(tokens)
        x == OperandsOf(nb, <<>>)
    IN  IF LogicalsOf(nb) # <<>>
        THEN UNION { PlainSegments(x[i]) : i \in 1..Len(x) }
        ELSE {nb} \cup
             (IF Len(nb) = 1 /\ nb[1].cls = "Parenthesis"
              THEN PlainSegments(SubSeq(nb[1].tokens, 2, Len(nb[1].tokens) - 1))
              ELSE IF Len(nb) = 1 /\ nb[1].cls = "Comparison"
              THEN PlainSegments(nb[1].tokens)
              ELSE {})

IsWellFormedSegment(segment) ==
    \/ Len(segment) = 3
    \/ Len(segment) = 1 /\ segment[1].cls \in {"Parenthesis", "Comparison"}

C16_UnsupportedComponent ==
    ParsedOneStatement =>
        /\ \A segment \in PlainSegments(StatementTokens) :
              IF IsWellFormedSegment(segment)
              THEN Len(segment) = 3 =>
                      _parse_token_list(segment).error.kind # "UnsupportedComponent"
              ELSE /\ _parse_token_list(segment).status = "raised"
                   /\ _parse_token_list(segment).error.kind = "UnsupportedComponent"
                   /\ result.status = "raised"
        /\ (/\ LogicalsOf(StatementTokens) = <<>>
            /\ ~IsWellFormedSegment(NonBlank(StatementTokens)))
              => /\ result.status = "raised"
                 /\ result.error.kind = "UnsupportedComponent"

C16_Witness ==
    /\ ParsedOneStatement
    /\ Len(LogicalsOf(StatementTokens)) = 1
    /\ <<>> \in PlainSegments(StatementTokens)
    /\ \E segment \in PlainSegments(StatementTokens) : Len(segment) = 3
    /\ result = Raised(UNSUPPORTED_COMPONENT(<<>>))

(***************************************************************************)
(* C17: _parse_filter_string fails with a ValueError naming the original   *)
(* string whenever the tokenizer raises, or gives a number of statements   *)
(* other than one, or gives something that is no statement; no filter is   *)
(* produced in these cases.                                                *)
(***************************************************************************)
\* the tokenizer did not give exactly one statement for the string
NotOneStatement(filter_string) ==
    IF filter_string.raises THEN TRUE
    ELSE IF Len(filter_string.parsed) # 1 THEN TRUE
    ELSE filter_string.parsed[1].cls # "Statement"

C17_MalformedStatement ==
    (/\ Done
     /\ call.fn = "_parse_filter_string"
     /\ NotOneStatement(call.filter_string))
        => /\ result.status = "raised"
           /\ ExceptionClass(result.error) = "ValueError"
           /\ result.error.text = call.filter_string.text
           /\ result.filter = NoneFilter

C17_Witness ==
    /\ Done
    /\ call.fn = "_parse_filter_string"
    /\ Len(call.filter_string.parsed) = 2
    /\ result.status = "raised"
    /\ result.error.kind = "NotSingleStatement"
    /\ result.error.text = call.filter_string.text

(***************************************************************************)
(* C18: the parser reports the first problem it comes to.  Within a leaf   *)
(* the checks run in the order identifier, operator, value, compatibility  *)
(* of operator and type, and the earliest failing check gives the error.   *)
(* Within an AND/OR split the segments are parsed in source order, the     *)
(* error of the first failing segment is raised and no compound of the     *)
(* valid segments is returned.                                             *)
(***************************************************************************)
\* the leaf has an identifier defect, an operator defect
HasIdentifierDefect ==
    ClaimedKeyType(IdentifierToken,
                   StripOne(AfterDot(IdentifierToken.value), {"\"", BACKTICK})) = ""

HasOperatorDefect == ClaimedOperator(OperatorToken) = ""

\* the value of the leaf is refused for the key type and operator
HasValueDefect == ~_parse_value(KeyTypeOfLeaf, OperatorOfLeaf, ValueToken).ok

\* the index of the first segment that fails, 0 when none does
FirstFailing(segments) ==
    IF \E i \in 1..Len(segments) : _parse_token_list(segments[i]).status = "raised"
    THEN CHOOSE i \in 1..Len(segments) :
             /\ _parse_token_list(segments[i]).status = "raised"
             /\ \A j \in 1..(i - 1) : _parse_token_list(segments[j]).status = "returned"
    ELSE 0

C18_FirstProblem ==
    /\ LeafCall =>
          IF HasIdentifierDefect
          THEN result = Raised(INVALID_IDENTIFIER(IdentifierToken.value))
          ELSE IF HasOperatorDefect
          THEN result = Raised(INVALID_OPERATOR(OperatorToken.value))
          ELSE IF HasValueDefect
          THEN result.status = "raised" /\ result.error.kind \notin
                   {"InvalidIdentifier", "InvalidOperator", "UnsupportedOperator"}
          ELSE result.status = "raised" => result.error.kind = "UnsupportedOperator"
    /\ (ParsedOneStatement /\ LogicalsOf(StatementTokens) # <<>>) =>
          LET x == OperandsOf(StatementTokens, <<>>)
          IN  IF FirstFailing(x) = 0
              THEN result.status = "returned"
              ELSE /\ result.status = "raised"
                   /\ result.error = _parse_token_list(x[FirstFailing(x)]).error
                   /\ result.filter = NoneFilter

C18_Witness ==
    /\ ParsedOneStatement
    /\ Len(LogicalsOf(StatementTokens)) = 2
    /\ LET x == OperandsOf(StatementTokens, <<>>)
       IN  /\ _parse_token_list(x[1]).status = "returned"
           /\ _parse_token_list(x[2]).error.kind = "InvalidValue"
           /\ _parse_token_list(x[3]).error.kind = "InvalidIdentifier"
    /\ result.status = "raised"
    /\ result.error.kind = "InvalidValue"

BuildCall == Done /\ call.fn = "build_search_runs_filter"

HasExperimentIds == ~call.experiment_ids.isNone

HasFilterString ==
    /\ ~call.filter_string.isNone
    /\ \E i \in 1..Len(call.filter_string.text) :
          call.filter_string.text[i] \notin {" ", "\t", "\n"}

\* the outcomes of the three builders for the arguments of the call
ExperimentIdPart == _filter_by_experiment_id(call.experiment_ids.ids)
ViewTypePart == _filter_by_mlflow_view_type(call.view_type)
FilterStringPart == _parse_filter_string(call.filter_string)

\* the parts the call has, in the order it is to collect them
ExpectedParts ==
    (IF HasExperimentIds THEN <<ExperimentIdPart.filter>> ELSE <<>>)
    \o (IF ViewTypePart.filter # NoneFilter THEN <<ViewTypePart.filter>> ELSE <<>>)
    \o (IF HasFilterString THEN <<FilterStringPart.filter>> ELSE <<>>)

\* a builder the call uses raises
PartRaises ==
    \/ HasExperimentIds /\ ExperimentIdPart.status = "raised"
    \/ ViewTypePart.status = "raised"
    \/ HasFilterString /\ FilterStringPart.status = "raised"

C20_BuildSearchRunsFilter ==
    BuildCall =>
        IF PartRaises THEN result.status = "raised"
        ELSE IF Len(ExpectedParts) = 0 THEN result = Returned(NoneFilter)
        ELSE IF Len(ExpectedParts) = 1 THEN result = Returned(ExpectedParts[1])
        ELSE result = Returned(CompoundFilter("AND", ExpectedParts))

C20_Witness ==
    /\ BuildCall
    /\ Len(call.experiment_ids.ids) = 2
    /\ result.status = "returned"
    /\ result.filter.operator = "AND"
    /\ Len(result.filter.conditions) = 3
    /\ result.filter.conditions[1].node = "CompoundFilter"
    /\ result.filter.conditions[2].node = "DeletedAtFilter"
    /\ result.filter.conditions[3].node = "ParamFilter"

(***************************************************************************)
(* C21: _filter_by_experiment_id raises MatchesNothing for an empty ID     *)
(* sequence, returns the bare ExperimentIdFilter(EQUAL_TO, int(id)) for    *)
(* one ID and CompoundFilter(OR, ...) with one EQUAL_TO filter per ID in   *)
(* input order for two or more IDs (IDs that int() accepts).               *)
(* MatchesNothing comes from this builder only: _parse_filter_string and   *)
(* _single_filter_from_tokens never raise it, and                          *)
(* build_search_runs_filter raises it only for an empty ID sequence.       *)
(***************************************************************************)
ExperimentIdCall == Done /\ call.fn = "_filter_by_experiment_id"

AllIntegerIds == \A i \in 1..Len(call.experiment_ids.ids) :
                     IsIntText(call.experiment_ids.ids[i])

\* ExperimentIdFilter(ComparisonType.EQUAL_TO, int(id)) for the i-th ID
EqualToId(i) ==
    [node |-> "ExperimentIdFilter", key |-> <<>>, operator |-> "EQUAL_TO",
     value |-> IntValue(IntOf(call.experiment_ids.ids[i])), conditions |-> <<>>]

RaisedMatchesNothing ==
    result.status = "raised" /\ result.error.kind = "MatchesNothing"

C21_FilterByExperimentId ==
    /\ (ExperimentIdCall /\ AllIntegerIds) =>
          LET n == Len(call.experiment_ids.ids)
          IN  IF n = 0 THEN RaisedMatchesNothing
              ELSE IF n = 1
              THEN result.status = "returned" /\ result.filter = EqualToId(1)
              ELSE /\ result.status = "returned"
                   /\ result.filter.node = "CompoundFilter"
                   /\ result.filter.operator = "OR"
                   /\ Len(result.filter.conditions) = n
                   /\ \A i \in 1..n : result.filter.conditions[i] = EqualToId(i)
    /\ (Done /\ call.fn \in {"_parse_filter_string", "_single_filter_from_tokens"})
          => ~RaisedMatchesNothing
    /\ (Done /\ call.fn = "build_search_runs_filter" /\ RaisedMatchesNothing)
          => (~call.experiment_ids.isNone /\ Len(call.experiment_ids.ids) = 0)

C21_Witness ==
    /\ ExperimentIdCall
    /\ call.experiment_ids.ids = << <<"2","3">>, <<"1">> >>
    /\ result.status = "returned"
    /\ result.filter.operator = "OR"
    /\ result.filter.conditions[1].value.n = 23
    /\ result.filter.conditions[2].value.n = 1

(***************************************************************************)
(* C22: in FacultyRestStore._search_runs (order_by and page_token          *)
(* accepted), a ValueError raised while the filter is built (a malformed   *)
(* statement, an unsupported component, an invalid identifier, operator or *)
(* value, an unsupported operator, an invalid view type, an experiment ID  *)
(* that is no integer) leaves the store as an MlflowException with the     *)
(* same message, and no query_runs request is made in that call.           *)
(***************************************************************************)
SearchRunsCalled == call.fn = "_search_runs"

\* order_by is None or empty and page_token is None
ArgumentsSupported ==
    /\ call.order_by.isNone \/ call.order_by.items = <<>>
    /\ call.page_token.isNone

\* what build_search_runs_filter does for the arguments of the call
Built == build_search_runs_filter(call.experiment_ids, call.filter_string,
                                  call.run_view_type)

BuilderRaisesValueError ==
    Built.status = "raised" /\ ExceptionClass(Built.error) = "ValueError"

C22_FilterErrorBecomesMlflowException ==
    (SearchRunsCalled /\ ArgumentsSupported /\ BuilderRaisesValueError) =>
        /\ requests = <<>>
        /\ pc \in {"called", "done"}
        /\ pc = "done" =>
              /\ result.status = "raised"
              /\ result.error.class = "MlflowException"
              /\ result.error.message = str(Built.error)

C22_Witness ==
    /\ SearchRunsCalled
    /\ pc = "done"
    /\ ArgumentsSupported
    /\ Built.status = "raised"
    /\ Built.error.kind = "UnsupportedOperator"
    /\ result.error.class = "MlflowException"
    /\ result.error.message = str(Built.error)
    /\ requests = <<>>

(***************************************************************************)
(* C23: for every FacultyRestStore operation that calls the remote client, *)
(* an HttpError raised by the client leaves the store as an                *)
(* MlflowException made by faculty_http_error_to_mlflow_exception and      *)
(* never as an HttpError.  In the operations that take one experiment ID   *)
(* or one run ID, and in search_runs of trackingstore.py, an experiment ID *)
(* that int() refuses or a run ID that UUID() refuses raises ValueError    *)
(* and no client method is called.  In _search_runs of tracking.py an      *)
(* experiment ID that int() refuses makes no request either, and the       *)
(* ValueError leaves the store as an MlflowException with its message.     *)
(***************************************************************************)
ClientRaisedHttpError ==
    \E i \in 1..Len(requests) : requests[i].response.class = "HttpError"

HttpErrorBecomesMlflowException ==
    /\ result.error.class # "HttpError"
    /\ (pc = "done" /\ ClientRaisedHttpError) =>
          /\ result.status = "raised"
          /\ result.error =
                faculty_http_error_to_mlflow_exception(requests[Len(requests)].response.error)

\* the call has an ID that the operation converts and the conversion refuses
InvalidIdGiven ==
    \/ /\ call.fn \in { op.fn : op \in ClientOperations }
       /\ \/ OperationOf(call.fn).experiment_id /\ ~IsIntText(call.experiment_id)
          \/ /\ OperationOf(call.fn).run_id
             /\ ~call.run_id.isNone
             /\ ~IsUuidText(call.run_id.items)
    \/ /\ call.fn = "search_runs"
       /\ call.search_expressions.isNone
       /\ call.run_view_type.isNone
       /\ \E i \in 1..Len(call.experiment_ids.ids) : ~IsIntText(call.experiment_ids.ids[i])

InvalidIdGivenToSearch ==
    /\ call.fn = "_search_runs"
    /\ ArgumentsSupported
    /\ \E i \in 1..Len(call.experiment_ids.ids) : ~IsIntText(call.experiment_ids.ids[i])

RaisedValueError == result.status = "raised" /\ result.error.class = "ValueError"

C23_ClientErrorsAndInvalidIds ==
    /\ HttpErrorBecomesMlflowException
    /\ InvalidIdGiven => (requests = <<>> /\ (pc = "done" => RaisedValueError))
    /\ InvalidIdGivenToSearch =>
          /\ requests = <<>>
          /\ pc = "done" =>
                /\ result.status = "raised"
                /\ result.error.class = "MlflowException"
                /\ result.error.message[1] = "ValueError"

\* the statement as written: ValueError in every operation
C23_Original_ValueErrorEverywhere ==
    /\ HttpErrorBecomesMlflowException
    /\ (InvalidIdGiven \/ InvalidIdGivenToSearch) =>
          (requests = <<>> /\ (pc = "done" => RaisedValueError))

C23_Witness ==
    /\ pc = "done"
    /\ call.fn = "get_experiment"
    /\ Len(requests) = 1
    /\ requests[1].method = "get"
    /\ requests[1].response.class = "HttpError"
    /\ result.error.class = "MlflowException"
    /\ result.error.message[5] = "404"

\* an invalid run ID in delete_run: ValueError and no request
C23_WitnessInvalidId ==
    /\ pc = "done"
    /\ call.fn = "delete_run"
    /\ InvalidIdGiven
    /\ RaisedValueError
    /\ requests = <<>>

(***************************************************************************)
(* C24: delete_run and restore_run, given a valid run ID, make exactly one *)
(* request (delete_runs or restore_runs) for that single run ID, and a     *)
(* response is classified into exactly one outcome: the run ID is in the   *)
(* deleted (restored) list, the call returns None; else it is in the       *)
(* conflicted list, MlflowException "already-deleted" ("already-active");  *)
(* else MlflowException "non-existent".  A run ID in both lists is a       *)
(* success.                                                                *)
(***************************************************************************)
DeleteOrRestoreCall ==
    /\ call.fn \in {"delete_run", "restore_run"}
    /\ IsUuidText(call.run_id.items)

\* the UUID of the call
RunUuid == UuidHex(call.run_id.items)

\* the list of the response that makes the call a success
DoneRunIds(response) ==
    IF call.fn = "delete_run" THEN response.deleted_run_ids
    ELSE response.restored_run_ids

CouldNot(outcome) ==
    MlflowException(
        <<IF call.fn = "delete_run"
          THEN (IF outcome = "conflict" THEN "Could not delete already-deleted run "
                ELSE "Could not delete non-existent run ")
          ELSE (IF outcome = "conflict" THEN "Could not restore already-active run "
                ELSE "Could not restore non-existent run ")>> \o RunUuid)

C24_DeleteAndRestoreRun ==
    DeleteOrRestoreCall =>
        /\ pc = "called" => requests = <<>>
        /\ pc = "done" =>
              /\ Len(requests) = 1
              /\ requests[1].method =
                    (IF call.fn = "delete_run" THEN "delete_runs" ELSE "restore_runs")
              /\ requests[1].run_ids = <<RunUuid>>
              /\ LET response == requests[1].response
                 IN  ~response.raises =>
                        IF RunUuid \in DoneRunIds(response)
                        THEN result = StoreReturned(None)
                        ELSE IF RunUuid \in response.conflicted_run_ids
                        THEN result = StoreRaised(CouldNot("conflict"))
                        ELSE result = StoreRaised(CouldNot("missing"))

C24_Witness ==
    /\ DeleteOrRestoreCall
    /\ call.fn = "restore_run"
    /\ pc = "done"
    /\ RunUuid \in requests[1].response.restored_run_ids
    /\ RunUuid \in requests[1].response.conflicted_run_ids
    /\ result = StoreReturned(None)

(***************************************************************************)
(* C25: search_runs of trackingstore.py (arguments accepted) requests      *)
(* pages from list_runs until a response has no next page or no runs, and  *)
(* then returns the converted runs of all the responses received, in the   *)
(* order received.  Every response before the last has a next page and     *)
(* runs; a response with a next page but no runs ends the loop.            *)
(***************************************************************************)
ListRunsCall == call.fn = "search_runs"

\* the runs of the first n responses, in the order received
RECURSIVE ReceivedRuns(_)
ReceivedRuns(n) ==
    IF n = 0 THEN <<>> ELSE ReceivedRuns(n - 1) \o requests[n].response.runs

\* the response ends the paging
HasNoMore(response) ==
    response.pagination.next.isNone \/ response.runs = <<>>

C25_SearchRunsPaging ==
    ListRunsCall =>
        /\ \A i \in 1..(Len(requests) - 1) :
              ~requests[i].response.raises /\ ~HasNoMore(requests[i].response)
        /\ (pc = "done" /\ result.status = "returned") =>
              /\ Len(requests) >= 1
              /\ HasNoMore(requests[Len(requests)].response)
              /\ Len(result.value) = Len(ReceivedRuns(Len(requests)))
              /\ \A i \in 1..Len(result.value) :
                    result.value[i] =
                        faculty_run_to_mlflow_run(ReceivedRuns(Len(requests))[i])
        /\ (pc = "list_runs" /\ Len(requests) >= 1) =>
              ~HasNoMore(requests[Len(requests)].response)

C25_Witness ==
    /\ ListRunsCall
    /\ pc = "done"
    /\ Len(requests) = 2
    /\ Len(requests[1].response.runs) = 2
    /\ requests[2].response.runs = <<>>
    /\ ~requests[2].response.pagination.next.isNone
    /\ result.status = "returned"
    /\ Len(result.value) = 2
    /\ result.value[2].lifecycle_stage = "deleted"

(***************************************************************************)
(* C26: every result of FacultyRunContext.tags() has the createdBy tag,    *)
(* with the value chosen from FACULTY_SERVER_TYPE by the first rule that   *)
(* matches: unset gives user, containing "job" gives job, containing "app" *)
(* gives app, matching "prod.*api" gives api with api.mode deploy,         *)
(* matching "dev.*api" gives api with api.mode test, anything else gives   *)
(* user; the api.mode tag is there if and only if createdBy is api.        *)
(***************************************************************************)
TagsCalled == call.fn = "tags" /\ pc = "done"

ServerType == environ_get(call.environ, "FACULTY_SERVER_TYPE")

\* the rule that decides, by the order of the statement
FirstRule ==
    IF ServerType.isNone THEN "unset"
    ELSE IF re_search(<<"j","o","b">>, <<>>, ServerType.items) THEN "job"
    ELSE IF re_search(<<"a","p","p">>, <<>>, ServerType.items) THEN "app"
    ELSE IF re_search(<<"p","r","o","d">>, <<"a","p","i">>, ServerType.items) THEN "prod.*api"
    ELSE IF re_search(<<"d","e","v">>, <<"a","p","i">>, ServerType.items) THEN "dev.*api"
    ELSE "otherwise"

C26_CreatedByTag ==
    TagsCalled =>
        /\ result.status = "returned"
        /\ CREATED_BY_TAG \in DOMAIN result.value
        /\ result.value[CREATED_BY_TAG] =
              (CASE FirstRule \in {"unset", "otherwise"} -> <<"u","s","e","r">>
                 [] FirstRule = "job" -> <<"j","o","b">>
                 [] FirstRule = "app" -> <<"a","p","p">>
                 [] FirstRule \in {"prod.*api", "dev.*api"} -> <<"a","p","i">>)
        /\ API_MODE_TAG \in DOMAIN result.value <=> result.value[CREATED_BY_TAG] = <<"a","p","i">>
        /\ FirstRule = "prod.*api" => result.value[API_MODE_TAG] = <<"d","e","p","l","o","y">>
        /\ FirstRule = "dev.*api" => result.value[API_MODE_TAG] = <<"t","e","s","t">>

C26_Witness ==
    /\ TagsCalled
    /\ ServerType = Some(<<"p","r","o","d","-","j","o","b","-","a","p","i">>)
    /\ result.value[CREATED_BY_TAG] = <<"j","o","b">>
    /\ API_MODE_TAG \notin DOMAIN result.value

(***************************************************************************)
(* C30: on one FacultyRunContext, whatever the calls of tags(): every call *)
(* returns, also when the account lookup fails, and then without the user  *)
(* tags; a failed lookup is not cached, the next call asks the account     *)
(* client again; after a lookup that succeeded the client is not asked     *)
(* again and the result of that call and of every later call has the       *)
(* userId and username tags of the account then returned.                  *)
(***************************************************************************)
\* the number of calls of tags() made, and the result of the i-th
CallsMade == IF pc = "done" THEN Len(earlier) + 1 ELSE 0

ResultOf(i) == IF i <= Len(earlier) THEN earlier[i].result ELSE result

HasUserTags(tags_result, account) ==
    /\ USER_ID_TAG \in DOMAIN tags_result.value
    /\ USERNAME_TAG \in DOMAIN tags_result.value
    /\ tags_result.value[USER_ID_TAG] = StrOfUuid(account.user_id)
    /\ tags_result.value[USERNAME_TAG] = account.username

HasNoUserTags(tags_result) ==
    /\ USER_ID_TAG \notin DOMAIN tags_result.value
    /\ USERNAME_TAG \notin DOMAIN tags_result.value

C30_AccountLookups ==
    call.fn \in {"FacultyRunContext", "tags"} =>
        /\ \A i \in 1..CallsMade : ResultOf(i).status = "returned"
        /\ Len(requests) <= CallsMade
        \* the k-th lookup is made by the k-th call, and every lookup before
        \* the last one failed
        /\ \A k \in 1..Len(requests) :
              /\ requests[k].call = k
              /\ k < Len(requests) => requests[k].response.raises
              /\ requests[k].response.raises => HasNoUserTags(ResultOf(k))
        /\ IF \A k \in 1..Len(requests) : requests[k].response.raises
           THEN /\ Len(requests) = CallsMade
                /\ _account_cache.isNone
           ELSE \A i \in Len(requests)..CallsMade :
                    HasUserTags(ResultOf(i), requests[Len(requests)].response.account)

C30_Witness ==
    /\ TagsCalled
    /\ CallsMade = 3
    /\ Len(requests) = 2
    /\ requests[1].response.raises
    /\ ~requests[2].response.raises
    /\ HasNoUserTags(ResultOf(1))
    /\ HasUserTags(ResultOf(2), requests[2].response.account)
    /\ HasUserTags(ResultOf(3), requests[2].response.account)

(***************************************************************************)
(* C27: the leaves the parser returns are well typed                       *)
(***************************************************************************)
\* a finished call of the parser that returned a filter
ParserReturned ==
    /\ Done
    /\ call.fn \in {"_single_filter_from_tokens", "_parse_filter_string"}
    /\ result.status = "returned"

\* the leaf filters of a filter, through the conditions of its compounds
RECURSIVE LeavesOf(_)
LeavesOf(filter) ==
    IF filter.node = "CompoundFilter"
    THEN UNION { LeavesOf(filter.conditions[i]) : i \in 1..Len(filter.conditions) }
    ELSE { filter }

IsNumber(value) == value.type \in {"int", "float"}

\* the type a value has by the class of its leaf, DEFINED aside
TypedByClass(leaf) ==
    CASE leaf.node = "RunIdFilter" -> leaf.value.type = "UUID" /\ Len(leaf.value.s) = 32
      [] leaf.node = "RunStatusFilter" ->
            leaf.value.type = "ExperimentRunStatus" /\ leaf.value.s \in ExperimentRunStatus
      [] leaf.node = "MetricFilter" -> IsNumber(leaf.value)
      [] leaf.node = "TagFilter" -> leaf.value.type = "str"
      [] leaf.node = "ParamFilter" -> IsNumber(leaf.value) \/ leaf.value.type = "str"
      [] OTHER -> FALSE

WellTyped(leaf) ==
    /\ (leaf.value.type = "bool") <=> (leaf.operator = "DEFINED")
    /\ leaf.operator # "DEFINED" => TypedByClass(leaf)
    /\ leaf.operator \in OrderingOperators => IsNumber(leaf.value)

\* C27: every leaf filter of a filter the parser returns has a boolean value
\* exactly when its operator is DEFINED; otherwise a RunIdFilter has a UUID,
\* a RunStatusFilter a run status, a MetricFilter a number, a TagFilter a
\* string and a ParamFilter a number or a string; and a leaf with an ordering
\* operator has a number.
C27_LeavesWellTyped ==
    ParserReturned => \A leaf \in LeavesOf(result.filter) : WellTyped(leaf)

\* a returned compound with an ordering leaf and a DEFINED leaf
C27_Witness ==
    /\ ParserReturned
    /\ call.fn = "_parse_filter_string"
    /\ result.filter.node = "CompoundFilter"
    /\ \E leaf \in LeavesOf(result.filter) :
          leaf.operator \in OrderingOperators /\ leaf.node = "ParamFilter"
    /\ \E leaf \in LeavesOf(result.filter) : leaf.operator = "DEFINED"
    /\ \A leaf \in LeavesOf(result.filter) : WellTyped(leaf)

(***************************************************************************)
(* C28: an empty list of experiment IDs in _search_runs                    *)
(***************************************************************************)
\* _search_runs is called with an empty list of experiment IDs and with
\* order_by and page_token it accepts
EmptyExperimentIds ==
    /\ SearchRunsCalled
    /\ ArgumentsSupported
    /\ ~call.experiment_ids.isNone
    /\ call.experiment_ids.ids = <<>>

ReturnedNoRuns == result = StoreReturned([runs |-> <<>>, token |-> None])

\* the view type of the call is none that MLflow has
InvalidViewTypeGiven ==
    call.run_view_type \notin {"ACTIVE_ONLY", "DELETED_ONLY", "ALL"}

\* the filter string of the call is one the parser raises on
MalformedFilterStringGiven ==
    /\ ~call.filter_string.isNone
    /\ ~IsBlank(call.filter_string.text)
    /\ _parse_filter_string(call.filter_string).status = "raised"

\* C28: with order_by None or empty and page_token None, a call of
\* _search_runs with an empty list of experiment IDs makes no query_runs
\* request and returns ([], None), whatever the view type and the filter
\* string are: neither an invalid view type nor a malformed filter string
\* raises an error in that call.
C28_EmptyExperimentIdsFirst ==
    EmptyExperimentIds =>
        /\ requests = <<>>
        /\ pc \in {"called", "done"}
        /\ pc = "done" => ReturnedNoRuns

\* such a call with both an invalid view type and a malformed filter string,
\* returned
C28_Witness ==
    /\ EmptyExperimentIds
    /\ InvalidViewTypeGiven
    /\ MalformedFilterStringGiven
    /\ pc = "done"
    /\ ReturnedNoRuns

(***************************************************************************)
(* C29: the paging of _search_runs                                         *)
(***************************************************************************)
\* the runs _search_runs has to return of those received: the first
\* max_results of them
FirstRuns ==
    LET received == ReceivedRuns(Len(requests))
    IN  SubSeq(received, 1, IF Len(received) < call.max_results
                            THEN Len(received) ELSE call.max_results)

====
